---- MODULE Spec2Model ----
(***************************************************************************)
(* Position cost-basis and reconciliation engine of invanalyzer.           *)
(*                                                                         *)
(* Monetary values and quantities are Python decimal.Decimal values under  *)
(* the default context (28 significant digits, ROUND_HALF_EVEN).  A        *)
(* Decimal is modelled by its numeric value in canonical form: a sign, a   *)
(* coefficient held as a little-endian sequence of decimal digits without  *)
(* low-order zeros, and an exponent.  Every arithmetic operation computes  *)
(* the exact result and rounds it to the context precision, as the         *)
(* decimal module does.                                                    *)
(***************************************************************************)
EXTENDS Integers, Sequences, FiniteSets, TLC

(***************************************************************************)
(* Natural numbers as little-endian digit sequences (index 1 = units),     *)
(* without high-order zeros; zero is the empty sequence.                   *)
(***************************************************************************)
Digit(a, i) == IF i <= Len(a) THEN a[i] ELSE 0

\* The element of a singleton set.  TLC passes the arguments of an operator
\* unevaluated; binding them as the elements of singleton sets evaluates each
\* once, before the operator's body.  The digit loops below also split their
\* index range in halves, which keeps the evaluation depth logarithmic in the
\* number of digits.
The(S) == CHOOSE r \in S : TRUE

\* a without its high-order zeros
NatTrim(a) ==
    LET N == {i \in 1..Len(a) : a[i] # 0}
    IN  IF N = {} THEN <<>>
        ELSE SubSeq(a, 1, CHOOSE i \in N : \A j \in N : j <= i)

RECURSIVE NatOfInt(_)
NatOfInt(n) == IF n = 0 THEN <<>> ELSE <<n % 10>> \o NatOfInt(n \div 10)

\* -1, 0, 1 as a < b, a = b, a > b
NatCmp(a, b) ==
    IF Len(a) < Len(b) THEN -1
    ELSE IF Len(a) > Len(b) THEN 1
    ELSE LET D == {i \in 1..Len(a) : a[i] # b[i]}
         IN  IF D = {} THEN 0
             ELSE LET m == CHOOSE i \in D : \A j \in D : j <= i
                  IN  IF a[m] < b[m] THEN -1 ELSE 1

RECURSIVE NatAddRange(_, _, _, _, _)
NatAddRange(a, b, lo, hi, st) ==
    IF lo > hi THEN st
    ELSE IF lo = hi
    THEN LET s == Digit(a, lo) + Digit(b, lo) + st.c
         IN  [out |-> Append(st.out, s % 10), c |-> s \div 10]
    ELSE LET mid == (lo + hi) \div 2
         IN  The({NatAddRange(a, b, mid + 1, hi, s1) :
                    s1 \in {NatAddRange(a, b, lo, mid, st)}})

NatAdd(a, b) ==
    LET n  == IF Len(a) > Len(b) THEN Len(a) ELSE Len(b)
        st == NatAddRange(a, b, 1, n, [out |-> <<>>, c |-> 0])
    IN  IF st.c = 0 THEN st.out ELSE Append(st.out, st.c)

RECURSIVE NatSubRange(_, _, _, _, _)
NatSubRange(a, b, lo, hi, st) ==
    IF lo > hi THEN st
    ELSE IF lo = hi
    THEN LET s == a[lo] - Digit(b, lo) - st.c
         IN  IF s < 0 THEN [out |-> Append(st.out, s + 10), c |-> 1]
             ELSE [out |-> Append(st.out, s), c |-> 0]
    ELSE LET mid == (lo + hi) \div 2
         IN  The({NatSubRange(a, b, mid + 1, hi, s1) :
                    s1 \in {NatSubRange(a, b, lo, mid, st)}})

\* a - b for a >= b
NatSub(a, b) == NatTrim(NatSubRange(a, b, 1, Len(a), [out |-> <<>>, c |-> 0]).out)

RECURSIVE NatMulDigitRange(_, _, _, _, _)
NatMulDigitRange(a, d, lo, hi, st) ==
    IF lo > hi THEN st
    ELSE IF lo = hi
    THEN LET s == a[lo] * d + st.c
         IN  [out |-> Append(st.out, s % 10), c |-> s \div 10]
    ELSE LET mid == (lo + hi) \div 2
         IN  The({NatMulDigitRange(a, d, mid + 1, hi, s1) :
                    s1 \in {NatMulDigitRange(a, d, lo, mid, st)}})

\* a * d for a digit d
NatMulDigit(a, d) ==
    IF d = 0 THEN <<>>
    ELSE LET st == NatMulDigitRange(a, d, 1, Len(a), [out |-> <<>>, c |-> 0])
         IN  IF st.c = 0 THEN st.out ELSE Append(st.out, st.c)

\* a * 10^k
NatShift(a, k) == IF a = <<>> \/ k = 0 THEN a ELSE [i \in 1..k |-> 0] \o a

\* a * (the number written by the digits b[lo..hi]) * 10^(lo - 1)
RECURSIVE NatMulRange(_, _, _, _)
NatMulRange(a, b, lo, hi) ==
    IF lo > hi THEN <<>>
    ELSE IF lo = hi THEN NatShift(NatMulDigit(a, b[lo]), lo - 1)
    ELSE LET mid == (lo + hi) \div 2
         IN  The({NatAdd(x, y) : x \in {NatMulRange(a, b, lo, mid)},
                                 y \in {NatMulRange(a, b, mid + 1, hi)}})

NatMul(a, b) == IF a = <<>> THEN <<>> ELSE NatMulRange(a, b, 1, Len(b))

\* The largest d in 0..9 with b * d <= r, for 0 <= r < 10 * b
QuotDigit(r, b) ==
    CHOOSE d \in 0..9 :
        /\ NatCmp(NatMulDigit(b, d), r) <= 0
        /\ d = 9 \/ NatCmp(NatMulDigit(b, d + 1), r) > 0

\* One step of the long division: the next quotient digit, put before the
\* digits q found so far, and the new remainder
NatDivDigit(r1, b, q) ==
    The({[q |-> <<d>> \o q, r |-> NatSub(r1, NatMulDigit(b, d))] :
             d \in {QuotDigit(r1, b)}})

\* Long division by b # 0 of the digits a[lo..hi], high digits first; st holds
\* the quotient digits found so far (high digit first) and the remainder
RECURSIVE NatDivRange(_, _, _, _, _)
NatDivRange(a, b, lo, hi, st) ==
    IF lo > hi THEN st
    ELSE IF lo = hi
    THEN The({NatDivDigit(r1, b, st.q) : r1 \in {NatTrim(<<a[lo]>> \o st.r)}})
    ELSE LET mid == (lo + hi) \div 2
         IN  The({NatDivRange(a, b, lo, mid, s1) :
                    s1 \in {NatDivRange(a, b, mid + 1, hi, st)}})

\* The same long division for a divisor n that fits a machine integer: the
\* remainder st.r is held as an integer
RECURSIVE NatDivIntRange(_, _, _, _, _)
NatDivIntRange(a, n, lo, hi, st) ==
    IF lo > hi THEN st
    ELSE IF lo = hi
    THEN The({[q |-> <<r1 \div n>> \o st.q, r |-> r1 % n] : r1 \in {st.r * 10 + a[lo]}})
    ELSE LET mid == (lo + hi) \div 2
         IN  The({NatDivIntRange(a, n, lo, mid, s1) :
                    s1 \in {NatDivIntRange(a, n, mid + 1, hi, st)}})

\* The integer written by the digits a[1..i]
RECURSIVE NatToInt(_, _)
NatToInt(a, i) == IF i = 0 THEN 0 ELSE a[1] + 10 * NatToInt(Tail(a), i - 1)

\* divmod(a, b) for b # 0.  A divisor of at most 8 digits is divided by in
\* machine integers (10 * divisor stays below 2^31).
NatDivMod(a, b) ==
    The({IF Len(y) <= 8
         THEN The({[q |-> NatTrim(res.q), r |-> NatOfInt(res.r)] :
                   res \in {The({NatDivIntRange(x, n, 1, Len(x), [q |-> <<>>, r |-> 0]) :
                                 n \in {NatToInt(y, Len(y))}})}})
         ELSE The({[q |-> NatTrim(res.q), r |-> res.r] :
                   res \in {NatDivRange(x, y, 1, Len(x), [q |-> <<>>, r |-> <<>>])}}) :
         x \in {a}, y \in {b}})

(***************************************************************************)
(* decimal.Decimal                                                         *)
(***************************************************************************)
\* getcontext().prec of the default context
Prec == 28

Zero == [sign |-> 0, coef |-> <<>>, exp |-> 0]

\* The canonical form of (-1)^sign * coef * 10^exp: no low-order zeros
DecNorm(sign, coef, exp) ==
    LET N == {i \in 1..Len(coef) : coef[i] # 0}
    IN  IF N = {} THEN Zero
        ELSE LET k == CHOOSE i \in N : \A j \in N : i <= j
             IN  [sign |-> sign, coef |-> SubSeq(coef, k, Len(coef)), exp |-> exp + k - 1]

\* Whether any of the digits a[1..k] is non-zero
AnyNonZero(a, k) == \E i \in 1..k : a[i] # 0

\* Decimal._fix: round coef * 10^exp to Prec significant digits, ROUND_HALF_EVEN
DecFix(sign, digits, exp) ==
    The({IF Len(coef) <= Prec THEN DecNorm(sign, coef, exp)
         ELSE LET k    == Len(coef) - Prec
                  kept == SubSeq(coef, k + 1, Len(coef))
                  up   == \/ coef[k] > 5
                          \/ coef[k] = 5 /\ (AnyNonZero(coef, k - 1) \/ kept[1] % 2 = 1)
              IN  DecNorm(sign, IF up THEN NatAdd(kept, <<1>>) ELSE kept, exp + k) :
         coef \in {digits}})

\* Decimal(n) for an integer n
Dec(n) == IF n < 0 THEN DecNorm(1, NatOfInt(-n), 0) ELSE DecNorm(0, NatOfInt(n), 0)

\* Decimal("n E e")
DecE(n, e) == IF n < 0 THEN DecNorm(1, NatOfInt(-n), e) ELSE DecNorm(0, NatOfInt(n), e)

IsZero(x) == x.coef = <<>>

\* Decimal.__neg__: the sign changed, rounded to the context
DecNeg(x) == IF IsZero(x) THEN x ELSE DecFix(1 - x.sign, x.coef, x.exp)

\* Decimal.__add__: the exact sum, rounded to the context
DecAdd(a, b) ==
    The({IF IsZero(x) THEN DecFix(y.sign, y.coef, y.exp)
         ELSE IF IsZero(y) THEN DecFix(x.sign, x.coef, x.exp)
         ELSE LET e  == IF x.exp < y.exp THEN x.exp ELSE y.exp
                  cx == NatShift(x.coef, x.exp - e)
                  cy == NatShift(y.coef, y.exp - e)
                  c  == NatCmp(cx, cy)
              IN  IF x.sign = y.sign THEN DecFix(x.sign, NatAdd(cx, cy), e)
                  ELSE IF c = 0 THEN Zero
                  ELSE IF c > 0 THEN DecFix(x.sign, NatSub(cx, cy), e)
                  ELSE DecFix(y.sign, NatSub(cy, cx), e) :
         x \in {a}, y \in {b}})

\* Decimal.__sub__: self.__add__(other.copy_negate()), the subtrahend's sign
\* changed without rounding it, so that the difference is rounded once
DecSub(x, y) == DecAdd(x, IF IsZero(y) THEN y ELSE [y EXCEPT !.sign = 1 - @])

\* Decimal.__mul__: the exact product, rounded to the context
DecMul(a, b) ==
    The({IF IsZero(x) \/ IsZero(y) THEN Zero
         ELSE DecFix((x.sign + y.sign) % 2, NatMul(x.coef, y.coef), x.exp + y.exp) :
         x \in {a}, y \in {b}})

\* What a division of a non-zero value by zero gives in place of a value:
\* the exception raised
DivisionByZero == [raised |-> "DivisionByZero"]

\* What 0 / 0, or a quantize that needs more than Prec digits, gives in place
\* of a value
InvalidOperation == [raised |-> "InvalidOperation"]

\* Decimal.__truediv__: Prec + 1 quotient digits with a sticky digit for a
\* non-zero remainder, then rounded to the context; the dividend is scaled up
\* by 10^shift, or, when shift is negative, the divisor by 10^-shift
DecDiv(a, b) ==
    The({IF IsZero(y) THEN (IF IsZero(x) THEN InvalidOperation ELSE DivisionByZero)
         ELSE IF IsZero(x) THEN Zero
         ELSE LET shift == Len(y.coef) - Len(x.coef) + Prec + 1
              IN  The({LET last  == Digit(dm.q, 1)
                           coeff == IF dm.r # <<>> /\ last % 5 = 0
                                    THEN NatAdd(dm.q, <<1>>) ELSE dm.q
                       IN  DecFix((x.sign + y.sign) % 2, coeff, x.exp - y.exp - shift) :
                       dm \in {IF shift >= 0
                               THEN NatDivMod(NatShift(x.coef, shift), y.coef)
                               ELSE NatDivMod(x.coef, NatShift(y.coef, -shift))}}) :
         x \in {a}, y \in {b}})

\* -1, 0 or 1 as x < 0, x = 0, x > 0
DecSign(x) == IF IsZero(x) THEN 0 ELSE IF x.sign = 1 THEN -1 ELSE 1

\* x < y, x <= y (numerically)
DecLt(x, y) ==
    IF DecSign(x) # DecSign(y) THEN DecSign(x) < DecSign(y)
    ELSE IF IsZero(x) THEN FALSE
    ELSE LET e  == IF x.exp < y.exp THEN x.exp ELSE y.exp
             c  == NatCmp(NatShift(x.coef, x.exp - e), NatShift(y.coef, y.exp - e))
         IN  IF x.sign = 0 THEN c < 0 ELSE c > 0

DecLe(x, y) == x = y \/ DecLt(x, y)

(***************************************************************************)
(* Records.  None stands for Python's None in an Optional[Decimal] field   *)
(* and for a function's None result; a missing date is NoDate (dates are   *)
(* day numbers from 1), a missing symbol or description the empty string   *)
(* (the code tests both with `not`, `or` and ==, which treat None and ""   *)
(* alike).                                                                 *)
(***************************************************************************)
None == [none |-> TRUE]

NoDate == 0

\* normalization/transactions.py TransactionRecord, the fields the engine reads
TransactionRecord(account_name, trade_date, settlement_date, symbol, quantity, price, description, debit, credit) ==
    [account_name |-> account_name, trade_date |-> trade_date,
     settlement_date |-> settlement_date, symbol |-> symbol, quantity |-> quantity,
     price |-> price, description |-> description, debit |-> debit, credit |-> credit]

\* positions/transaction_utils.py PositionCost
PositionCost(quantity, book_cost) == [quantity |-> quantity, book_cost |-> book_cost]

\* A dict: a function whose domain is the set of keys
EmptyDict == [k \in {} |-> None]

\* dict.get(key, default)
Get(dict, key, default) == IF key \in DOMAIN dict THEN dict[key] ELSE default

\* dict[key] = value
Put(dict, key, value) ==
    [k \in DOMAIN dict \cup {key} |-> IF k = key THEN value ELSE dict[k]]

\* `x or Decimal("0")` for an Optional[Decimal] x
OrZero(x) == IF x = None \/ IsZero(x) THEN Zero ELSE x

(***************************************************************************)
(* positions/transaction_utils.py                                          *)
(***************************************************************************)
\* effective_date with the settlement date taken before the trade date
effective_date_settlement_first(record) ==
    IF record.settlement_date # NoDate THEN record.settlement_date ELSE record.trade_date

effective_date(record) ==
    IF record.trade_date # NoDate THEN record.trade_date ELSE record.settlement_date

\* infer_signed_quantity_from_fields with every record that has a quantity
\* and is not a sell taken for a buy
infer_signed_quantity_from_fields_default_buy(quantity, description) ==
    IF quantity = None THEN None
    ELSE IF description = "sell" THEN DecNeg(quantity)
    ELSE quantity

infer_signed_quantity_from_fields(quantity, description) ==
    IF quantity = None THEN None
    ELSE IF description = "buy" THEN quantity
    ELSE IF description = "sell" THEN DecNeg(quantity)
    ELSE None

infer_signed_quantity(record) ==
    infer_signed_quantity_from_fields(record.quantity, record.description)

transaction_value(record, signed_quantity) ==
    IF record.price # None /\ record.quantity # None
    THEN DecMul(record.price, record.quantity)
    ELSE IF DecSign(signed_quantity) > 0 /\ record.debit # None THEN record.debit
    ELSE IF DecSign(signed_quantity) < 0 /\ record.credit # None THEN record.credit
    ELSE None

\* The result of a call: the positions dict as the call leaves it, the value
\* returned, and the exception raised ("" when the call returns)
Returned(positions, gain) == [positions |-> positions, gain |-> gain, raised |-> ""]
Raised(positions, exception) == [positions |-> positions, gain |-> None, raised |-> exception]

\* apply_acquisition with the new value replacing the book cost instead of
\* being added to it
apply_acquisition_overwriting(record, positions, signed_quantity) ==
    LET value    == OrZero(transaction_value(record, signed_quantity))
        position == Get(positions, record.symbol, PositionCost(Zero, Zero))
    IN  Returned(Put(positions, record.symbol,
                     PositionCost(DecAdd(position.quantity, signed_quantity), value)),
                 None)

\* The acquisition branch, lines 81-88
apply_acquisition(record, positions, signed_quantity) ==
    LET value    == OrZero(transaction_value(record, signed_quantity))
        position == Get(positions, record.symbol, PositionCost(Zero, Zero))
    IN  Returned(Put(positions, record.symbol,
                     PositionCost(DecAdd(position.quantity, signed_quantity),
                                  DecAdd(position.book_cost, value))),
                 None)

\* cost_basis, lines 93-97: the average cost of the position times the
\* quantity sold
cost_basis_of(position, sell_quantity) ==
    IF IsZero(position.quantity) THEN Zero
    ELSE The({IF "raised" \in DOMAIN average_cost THEN average_cost
              ELSE DecMul(average_cost, sell_quantity) :
              average_cost \in {DecDiv(position.book_cost, position.quantity)}})

\* apply_disposal taking the proceeds, not the cost basis, off the book cost
apply_disposal_less_proceeds(record, positions, signed_quantity) ==
    LET proceeds      == transaction_value(record, signed_quantity)
        sell_quantity == DecNeg(signed_quantity)
        position      == Get(positions, record.symbol, PositionCost(Zero, Zero))
        average_cost  == IF IsZero(position.quantity) THEN Zero
                         ELSE DecDiv(position.book_cost, position.quantity)
        cost_basis    == DecMul(average_cost, sell_quantity)
    IN  IF proceeds = None THEN Returned(positions, None)
        ELSE Returned(Put(positions, record.symbol,
                          PositionCost(DecSub(position.quantity, sell_quantity),
                                       DecSub(position.book_cost, proceeds))),
                      DecSub(proceeds, cost_basis))

\* apply_disposal taking undetermined proceeds as zero, as the acquisition
\* branch takes an undetermined value
apply_disposal_zero_proceeds(record, positions, signed_quantity) ==
    LET proceeds      == OrZero(transaction_value(record, signed_quantity))
        sell_quantity == DecNeg(signed_quantity)
        position      == Get(positions, record.symbol, PositionCost(Zero, Zero))
        average_cost  == IF IsZero(position.quantity) THEN Zero
                         ELSE DecDiv(position.book_cost, position.quantity)
        cost_basis    == DecMul(average_cost, sell_quantity)
    IN  Returned(Put(positions, record.symbol,
                     PositionCost(DecSub(position.quantity, sell_quantity),
                                  DecSub(position.book_cost, cost_basis))),
                 DecSub(proceeds, cost_basis))

\* apply_disposal dividing by the quantity without testing it for zero
apply_disposal_unguarded(record, positions, signed_quantity) ==
    LET proceeds      == transaction_value(record, signed_quantity)
        sell_quantity == DecNeg(signed_quantity)
        position      == Get(positions, record.symbol, PositionCost(Zero, Zero))
        average_cost  == DecDiv(position.book_cost, position.quantity)
    IN  IF proceeds = None THEN Returned(positions, None)
        ELSE IF "raised" \in DOMAIN average_cost
        THEN Raised(positions, average_cost.raised)
        ELSE Returned(Put(positions, record.symbol,
                          PositionCost(DecSub(position.quantity, sell_quantity),
                                       DecSub(position.book_cost,
                                              DecMul(average_cost, sell_quantity)))),
                      DecSub(proceeds, DecMul(average_cost, sell_quantity)))

\* The disposal branch, lines 89-103
\* apply_disposal with the quantity sold held to the quantity in the position
apply_disposal_clamped(record, positions, signed_quantity) ==
    LET proceeds      == transaction_value(record, signed_quantity)
        position      == Get(positions, record.symbol, PositionCost(Zero, Zero))
        asked         == DecNeg(signed_quantity)
        sell_quantity == IF DecSign(position.quantity) > 0 /\ DecLt(position.quantity, asked)
                         THEN position.quantity ELSE asked
        average_cost  == IF IsZero(position.quantity) THEN Zero
                         ELSE DecDiv(position.book_cost, position.quantity)
        cost_basis    == DecMul(average_cost, sell_quantity)
    IN  IF proceeds = None THEN Returned(positions, None)
        ELSE IF "raised" \in DOMAIN average_cost
        THEN Raised(positions, average_cost.raised)
        ELSE Returned(Put(positions, record.symbol,
                          PositionCost(DecSub(position.quantity, sell_quantity),
                                       DecSub(position.book_cost, cost_basis))),
                      DecSub(proceeds, cost_basis))

apply_disposal(record, positions, signed_quantity) ==
    LET proceeds      == transaction_value(record, signed_quantity)
        sell_quantity == DecNeg(signed_quantity)
        position      == Get(positions, record.symbol, PositionCost(Zero, Zero))
        average_cost  == IF IsZero(position.quantity) THEN Zero
                         ELSE DecDiv(position.book_cost, position.quantity)
        cost_basis    == cost_basis_of(position, sell_quantity)
    IN  IF proceeds = None THEN Returned(positions, None)
        ELSE IF "raised" \in DOMAIN average_cost
        THEN Raised(positions, average_cost.raised)
        ELSE Returned(Put(positions, record.symbol,
                          PositionCost(DecSub(position.quantity, sell_quantity),
                                       DecSub(position.book_cost, cost_basis))),
                      DecSub(proceeds, cost_basis))

\* apply_transaction_to_position_costs with the position looked up by
\* positions.setdefault before anything else
apply_transaction_to_position_costs_entry_first(record, positions) ==
    LET signed_quantity == infer_signed_quantity(record)
        entered == IF record.symbol \in DOMAIN positions THEN positions
                   ELSE Put(positions, record.symbol, PositionCost(Zero, Zero))
    IN  IF signed_quantity = None \/ record.symbol = ""
        THEN Returned(entered, None)
        ELSE IF DecSign(signed_quantity) > 0
        THEN apply_acquisition(record, entered, signed_quantity)
        ELSE apply_disposal(record, entered, signed_quantity)

apply_transaction_to_position_costs(record, positions) ==
    LET signed_quantity == infer_signed_quantity(record)
    IN  IF signed_quantity = None \/ record.symbol = ""
        THEN Returned(positions, None)
        ELSE IF DecSign(signed_quantity) > 0
        THEN apply_acquisition(record, positions, signed_quantity)
        ELSE apply_disposal(record, positions, signed_quantity)

\* What one call that writes positions[record.symbol] adds to a journal of
\* the fold: the value added (lines 82-87), or the cost basis taken off, the
\* proceeds and the gain returned (lines 89-103); a call that returns at line
\* 80 or 91 adds nothing
written(record, positions, gain) ==
    LET signed_quantity == infer_signed_quantity(record)
        position        == Get(positions, record.symbol, PositionCost(Zero, Zero))
    IN  IF signed_quantity = None \/ record.symbol = "" THEN <<>>
        ELSE IF DecSign(signed_quantity) > 0
        THEN <<[symbol |-> record.symbol,
                value |-> OrZero(transaction_value(record, signed_quantity)),
                cost_basis |-> Zero, proceeds |-> Zero, gain |-> Zero]>>
        ELSE IF transaction_value(record, signed_quantity) = None THEN <<>>
        ELSE <<[symbol |-> record.symbol, value |-> Zero,
                cost_basis |-> cost_basis_of(position, DecNeg(signed_quantity)),
                proceeds |-> transaction_value(record, signed_quantity),
                gain |-> gain]>>

(***************************************************************************)
(* reporting/unrealized_gain_report.py: the replay engine's own copies     *)
(***************************************************************************)
_effective_date(record) ==
    IF record.trade_date # NoDate THEN record.trade_date ELSE record.settlement_date

_infer_signed_quantity(record) ==
    IF record.quantity = None THEN None
    ELSE IF record.description = "buy" THEN record.quantity
    ELSE IF record.description = "sell" THEN DecNeg(record.quantity)
    ELSE None

_transaction_value(record, signed_quantity) ==
    IF record.price # None /\ record.quantity # None
    THEN DecMul(record.price, record.quantity)
    ELSE IF DecSign(signed_quantity) > 0 /\ record.debit # None THEN record.debit
    ELSE IF DecSign(signed_quantity) < 0 /\ record.credit # None THEN record.credit
    ELSE None

\* The disposal branch, lines 91-99
_apply_disposal(record, positions, signed_quantity) ==
    The({The({IF IsZero(position.quantity)
              THEN Returned(Put(positions, symbol,
                                PositionCost(DecSub(position.quantity, sell_quantity),
                                             position.book_cost)),
                            None)
              ELSE IF "raised" \in DOMAIN average_cost
              THEN Raised(positions, average_cost.raised)
              ELSE Returned(Put(positions, symbol,
                                PositionCost(DecSub(position.quantity, sell_quantity),
                                             DecSub(position.book_cost,
                                                    DecMul(average_cost, sell_quantity)))),
                            None) :
              average_cost \in {IF ~IsZero(position.quantity)
                                THEN DecDiv(position.book_cost, position.quantity)
                                ELSE Zero}}) :
         symbol \in {record.symbol},
         position \in {Get(positions, record.symbol, PositionCost(Zero, Zero))},
         sell_quantity \in {DecNeg(signed_quantity)}})

_apply_transaction(record, positions) ==
    The({IF signed_quantity = None \/ record.symbol = "" THEN Returned(positions, None)
         ELSE IF DecSign(signed_quantity) > 0
         THEN The({Returned(Put(positions, symbol,
                                PositionCost(DecAdd(position.quantity, signed_quantity),
                                             DecAdd(position.book_cost, value))),
                            None) :
                   value \in {OrZero(_transaction_value(record, signed_quantity))}})
         ELSE _apply_disposal(record, positions, signed_quantity) :
         signed_quantity \in {_infer_signed_quantity(record)},
         symbol \in {record.symbol},
         position \in {Get(positions, record.symbol, PositionCost(Zero, Zero))}})

\* sorted leaving the list in the order given
sorted_as_given(seq, keys) == seq

\* sorted with equal keys in the reverse of their order in seq
sorted_ties_reversed(seq, keys) ==
    LET n == Len(seq)
        before(j, i) == \/ keys[j] < keys[i]
                        \/ keys[j] = keys[i] /\ j > i
        rank(i) == Cardinality({j \in 1..n : before(j, i)}) + 1
    IN  [r \in 1..n |-> seq[CHOOSE i \in 1..n : rank(i) = r]]

\* sorted(seq, key=...) where keys[i] is the key of seq[i]: ascending by key,
\* equal keys in their order in seq (Python's sort is stable)
sorted(seq, keys) ==
    LET n == Len(seq)
        before(j, i) == \/ keys[j] < keys[i]
                        \/ keys[j] = keys[i] /\ j < i
        rank(i) == Cardinality({j \in 1..n : before(j, i)}) + 1
    IN  [r \in 1..n |-> seq[CHOOSE i \in 1..n : rank(i) = r]]

\* key=lambda record: _effective_date(record), line 107
effective_dates(seq) == [i \in 1..Len(seq) |-> _effective_date(seq[i])]

\* sorted(set(valuation_dates)), line 104
sorted_set(dates) ==
    [r \in 1..Cardinality(dates) |->
        CHOOSE d \in dates : Cardinality({e \in dates : e < d}) = r - 1]

\* The list sorted at lines 105-108: the records with an effective date
with_effective_date(transactions) ==
    SelectSeq(transactions, LAMBDA record : _effective_date(record) # NoDate)

\* breaks_at with a record dated on the valuation date left for a later date
breaks_at_on_the_date(record, valuation_date) ==
    _effective_date(record) = NoDate \/ _effective_date(record) >= valuation_date

\* The test that leaves the while loop, line 117
breaks_at(record, valuation_date) ==
    _effective_date(record) = NoDate \/ _effective_date(record) > valuation_date

\* next_index with the cursor left where it is
next_index_stuck(index) == index

\* index += 1, line 120
next_index(index) == index + 1

\* The while loop of lines 114-120 run to its end for one valuation date
RECURSIVE while_loop(_, _, _, _)
while_loop(sorted_transactions, valuation_date, index, positions) ==
    IF index >= Len(sorted_transactions) THEN [index |-> index, positions |-> positions]
    ELSE IF breaks_at(sorted_transactions[index + 1], valuation_date)
    THEN [index |-> index, positions |-> positions]
    ELSE while_loop(sorted_transactions, valuation_date, next_index(index),
                    _apply_transaction(sorted_transactions[index + 1], positions).positions)

\* The for loop of lines 113-121 from the d-th valuation date on
RECURSIVE for_loop(_, _, _, _, _, _)
for_loop(sorted_dates, sorted_transactions, d, index, positions, results) ==
    IF d > Len(sorted_dates) THEN results
    ELSE LET after == while_loop(sorted_transactions, sorted_dates[d], index, positions)
         IN  for_loop(sorted_dates, sorted_transactions, d + 1, after.index,
                      after.positions, Put(results, sorted_dates[d], after.positions))

\* The dict objects of one call are told apart by identity: positions, made
\* at line 109, is object 0 and is changed in place by _apply_transaction
\* (positions[symbol] = ...); a PositionCost is frozen and is held by value
positions_dict == 0

\* results[valuation_date] = positions: the dict itself stored, no copy made
positions_itself(dicts, fresh) == [dicts |-> dicts, dict |-> positions_dict]

\* The dict comprehension of line 121: a new dict object with the entries
\* positions has now
positions_copied(dicts, fresh) ==
    [dicts |-> Put(dicts, fresh, dicts[positions_dict]), dict |-> fresh]

\* What results holds: for each key the present entries of the dict stored
results_read(dicts, stored) == [D \in DOMAIN stored |-> dicts[stored[D]]]

_book_costs_by_date(transactions, valuation_dates) ==
    for_loop(sorted_set(valuation_dates),
             sorted(with_effective_date(transactions),
                    effective_dates(with_effective_date(transactions))),
             1, 0, EmptyDict, EmptyDict)

(***************************************************************************)
(* Strings are ordered as Python orders them, by code point; Strings lists *)
(* the account names, symbols, months and descriptions of the model in     *)
(* that order                                                              *)
(***************************************************************************)
Strings ==
    <<"", "2024-01", "2024-02", "A", "B", "CASH", "X", "Y", "account interest", "buy",
      "cash advantage", "dividend", "fees", "sell", "sell of securities", "unknown">>

\* The place of a string in the ascending order (str.__lt__)
str_key(s) == CHOOSE i \in 1..Len(Strings) : Strings[i] = s

\* sorted(symbols) for a set of strings, reconcile.py line 116
sorted_strings(S) ==
    [r \in 1..Cardinality(S) |->
        CHOOSE s \in S : Cardinality({t \in S : str_key(t) < str_key(s)}) = r - 1]

(***************************************************************************)
(* positions/transaction_utils.py build_positions                          *)
(***************************************************************************)
\* positions after the loop of lines 61-70 has taken the first n records
RECURSIVE build_positions_loop(_, _, _)
build_positions_loop(transactions, valuation_date, n) ==
    IF n = 0 THEN EmptyDict
    ELSE LET positions       == build_positions_loop(transactions, valuation_date, n - 1)
             record          == transactions[n]
             effective       == effective_date(record)
             signed_quantity == infer_signed_quantity_from_fields(record.quantity,
                                                                  record.description)
         IN  IF effective = NoDate \/ effective > valuation_date THEN positions
             ELSE IF record.symbol = "" THEN positions
             ELSE IF signed_quantity = None THEN positions
             ELSE Put(positions, record.symbol,
                      DecAdd(Get(positions, record.symbol, Zero), signed_quantity))

build_positions(transactions, valuation_date) ==
    build_positions_loop(transactions, valuation_date, Len(transactions))

(***************************************************************************)
(* positions/reconcile.py                                                  *)
(***************************************************************************)
TransactionRow(account_name, trade_date, settlement_date, symbol, quantity, description, debit, credit) ==
    [account_name |-> account_name, trade_date |-> trade_date,
     settlement_date |-> settlement_date, symbol |-> symbol, quantity |-> quantity,
     description |-> description, debit |-> debit, credit |-> credit]

PositionMismatch(account_name, valuation_date, symbol, holdings_quantity, transaction_quantity, delta) ==
    [account_name |-> account_name, valuation_date |-> valuation_date,
     symbol |-> symbol, holdings_quantity |-> holdings_quantity,
     transaction_quantity |-> transaction_quantity, delta |-> delta]

\* A row of the holdings file as lines 66-67 read it: the symbol ("" when the
\* column is empty) and the parsed quantity (None when the column is empty)
HoldingsRow(symbol, quantity) == [symbol |-> symbol, quantity |-> quantity]

\* holdings after the loop of lines 65-70 has taken the first n rows
RECURSIVE _read_holdings_loop(_, _)
_read_holdings_loop(rows, n) ==
    IF n = 0 THEN EmptyDict
    ELSE LET holdings == _read_holdings_loop(rows, n - 1)
             row      == rows[n]
         IN  IF row.symbol = "" \/ row.quantity = None THEN holdings
             ELSE Put(holdings, row.symbol, row.quantity)

_read_holdings(rows) == _read_holdings_loop(rows, Len(rows))

\* reconcile.py's own _infer_signed_quantity, lines 74-82
reconcile_infer_signed_quantity(record) ==
    IF record.quantity = None THEN None
    ELSE IF record.debit # None /\ record.credit = None THEN record.quantity
    ELSE IF record.credit # None /\ record.debit = None THEN DecNeg(record.quantity)
    ELSE None

\* reconcile.py's own build_positions, lines 85-100: positions after the loop
\* has taken the first n records
RECURSIVE reconcile_build_positions_loop(_, _, _)
reconcile_build_positions_loop(transactions, valuation_date, n) ==
    IF n = 0 THEN EmptyDict
    ELSE LET positions       == reconcile_build_positions_loop(transactions,
                                                               valuation_date, n - 1)
             record          == transactions[n]
             effective       == IF record.trade_date # NoDate THEN record.trade_date
                                ELSE record.settlement_date
             signed_quantity == reconcile_infer_signed_quantity(record)
         IN  IF effective = NoDate \/ effective > valuation_date THEN positions
             ELSE IF record.symbol = "" THEN positions
             ELSE IF signed_quantity = None THEN positions
             ELSE Put(positions, record.symbol,
                      DecAdd(Get(positions, record.symbol, Zero), signed_quantity))

reconcile_build_positions(transactions, valuation_date) ==
    reconcile_build_positions_loop(transactions, valuation_date, Len(transactions))

\* is_mismatch with a holdings quantity below the transactions' passed over
is_mismatch_surplus_only(delta) == DecSign(delta) > 0

\* delta != 0, line 120
is_mismatch(delta) == ~IsZero(delta)

\* The body of the loop of lines 116-130 for one symbol
compare_symbol(symbol, account_name, valuation_date, positions, holdings, mismatches) ==
    LET holdings_qty    == Get(holdings, symbol, Zero)
        transaction_qty == Get(positions, symbol, Zero)
        delta           == DecSub(holdings_qty, transaction_qty)
    IN  IF is_mismatch(delta)
        THEN Append(mismatches,
                    PositionMismatch(account_name, valuation_date, symbol,
                                     holdings_qty, transaction_qty, delta))
        ELSE mismatches

\* The loop of lines 116-130 from the r-th symbol on
RECURSIVE compare_loop(_, _, _, _, _, _, _)
compare_loop(symbols, r, account_name, valuation_date, positions, holdings, mismatches) ==
    IF r > Len(symbols) THEN mismatches
    ELSE compare_loop(symbols, r + 1, account_name, valuation_date, positions, holdings,
                      compare_symbol(symbols[r], account_name, valuation_date,
                                     positions, holdings, mismatches))

\* reconcile_positions for the rows of the two files and the name of the
\* directory of the holdings file
reconcile_positions(transactions, holdings_rows, holdings_directory, valuation_date) ==
    LET positions    == reconcile_build_positions(transactions, valuation_date)
        holdings     == _read_holdings(holdings_rows)
        symbols      == DOMAIN positions \cup DOMAIN holdings
        account_name == IF transactions # <<>> THEN transactions[1].account_name
                        ELSE holdings_directory
    IN  compare_loop(sorted_strings(symbols), 1, account_name, valuation_date,
                     positions, holdings, <<>>)

(***************************************************************************)
(* reporting/unrealized_gain_report.py summarize_unrealized_gains          *)
(***************************************************************************)
\* round(x, n) for a Decimal x: x.quantize(Decimal("1E-n")) in the default
\* context, ROUND_HALF_EVEN
DecRound(a, n) ==
    The({IF IsZero(x) THEN Zero
         ELSE IF x.exp + Len(x.coef) + n > Prec THEN InvalidOperation
         ELSE IF x.exp >= -n THEN x
         ELSE LET k == (-n) - x.exp
              IN  The({LET kept == SubSeq(padded, k + 1, Len(padded))
                           up   == \/ padded[k] > 5
                                   \/ padded[k] = 5 /\ (\/ AnyNonZero(padded, k - 1)
                                                        \/ kept[1] % 2 = 1)
                           coef == NatTrim(IF up THEN NatAdd(kept, <<1>>) ELSE kept)
                       IN  IF Len(coef) > Prec THEN InvalidOperation
                           ELSE DecNorm(x.sign, coef, -n) :
                       padded \in {[i \in 1..(IF Len(x.coef) > k THEN Len(x.coef)
                                               ELSE k + 1) |-> Digit(x.coef, i)]}}) :
         x \in {a}})

\* round(x, n) as line 186 calls it: the builtin raises TypeError for None
round(x, n) == IF x = None THEN [raised |-> "TypeError"] ELSE DecRound(x, n)

\* normalization/holdings.py HoldingRecord, the fields the report computes
\* with (name and currency are copied to the row as they are)
HoldingRecord(account_name, valuation_date, symbol, quantity, price, market_value) ==
    [account_name |-> account_name, valuation_date |-> valuation_date,
     symbol |-> symbol, quantity |-> quantity, price |-> price,
     market_value |-> market_value]

UnrealizedGainRow(account_name, valuation_date, symbol, quantity, price, market_value, book_cost, unrealized_gain, unrealized_gain_pct) ==
    [account_name |-> account_name, valuation_date |-> valuation_date,
     symbol |-> symbol, quantity |-> quantity, price |-> price,
     market_value |-> market_value, book_cost |-> book_cost,
     unrealized_gain |-> unrealized_gain, unrealized_gain_pct |-> unrealized_gain_pct]

\* _market_value with quantity times price taken before a declared market value
_market_value_computed_first(holding) ==
    IF holding.quantity # None /\ holding.price # None
    THEN DecMul(holding.quantity, holding.price)
    ELSE IF holding.market_value # None THEN holding.market_value
    ELSE Zero

_market_value(holding) ==
    IF holding.market_value # None THEN holding.market_value
    ELSE IF holding.quantity # None /\ holding.price # None
    THEN DecMul(holding.quantity, holding.price)
    ELSE Zero

\* Lines 167-174 for one holding: the locals before the row is built
unrealized_gain_locals(holding, book_costs_by_date) ==
    LET positions           == Get(book_costs_by_date, holding.valuation_date, EmptyDict)
        position            == Get(positions, holding.symbol, PositionCost(Zero, Zero))
    IN  The({The({[market_value |-> market_value, book_cost |-> book_cost,
                   unrealized_gain |-> unrealized_gain,
                   unrealized_gain_pct |-> IF ~IsZero(book_cost)
                                           THEN DecDiv(unrealized_gain, book_cost)
                                           ELSE None] :
                  unrealized_gain \in {DecSub(market_value, book_cost)}}) :
             market_value \in {_market_value(holding)}, book_cost \in {position.book_cost}})

\* unrealized_gain_row with the market value and the book cost rounded to
\* two places before the gain and the percentage are taken
unrealized_gain_row_rounding_first(account_name, holding, book_costs_by_date) ==
    LET positions == Get(book_costs_by_date, holding.valuation_date, EmptyDict)
        position  == Get(positions, holding.symbol, PositionCost(Zero, Zero))
    IN  The({The({IF IsZero(book_cost)
                  THEN round(None, 4)
                  ELSE UnrealizedGainRow(account_name, holding.valuation_date,
                                         holding.symbol, holding.quantity, holding.price,
                                         market_value, book_cost,
                                         DecRound(unrealized_gain, 2),
                                         DecRound(DecDiv(unrealized_gain, book_cost), 4)) :
                  unrealized_gain \in {DecSub(market_value, book_cost)}}) :
             market_value \in {DecRound(_market_value(holding), 2)},
             book_cost \in {DecRound(position.book_cost, 2)}})

\* Lines 167-189 for one holding: the row appended, or the exception raised
\* while it is built
unrealized_gain_row(account_name, holding, book_costs_by_date) ==
    LET positions           == Get(book_costs_by_date, holding.valuation_date, EmptyDict)
        position            == Get(positions, holding.symbol, PositionCost(Zero, Zero))
        market_value        == _market_value(holding)
        book_cost           == position.book_cost
        unrealized_gain     == DecSub(market_value, book_cost)
        unrealized_gain_pct == IF ~IsZero(book_cost) THEN DecDiv(unrealized_gain, book_cost)
                               ELSE None
    IN  The({LET failed == {i \in 1..4 : "raised" \in DOMAIN rounded[i]}
             IN  IF failed # {}
                 THEN rounded[CHOOSE i \in failed : \A j \in failed : i <= j]
                 ELSE UnrealizedGainRow(account_name, holding.valuation_date,
                                        holding.symbol, holding.quantity, holding.price,
                                        rounded[1], rounded[2], rounded[3], rounded[4]) :
             rounded \in {<<round(market_value, 2), round(book_cost, 2),
                            round(unrealized_gain, 2), round(unrealized_gain_pct, 4)>>}})

\* key=lambda row: (row.account_name, row.valuation_date, row.symbol), line 191,
\* the tuple as one number that orders as the tuple does
row_key(row) ==
    (str_key(row.account_name) * 100 + row.valuation_date) * 100 + str_key(row.symbol)

\* transactions_by_account with one list of transactions shared by all the
\* accounts: every account is given the records of every file read
transactions_by_account_shared(transaction_files, account_filter) ==
    LET read == sorted_strings({d \in DOMAIN transaction_files :
                                   account_filter = {} \/ d \in account_filter})
        all  == IF Len(read) = 0 THEN <<>>
                ELSE IF Len(read) = 1 THEN transaction_files[read[1]]
                ELSE transaction_files[read[1]] \o transaction_files[read[2]]
    IN  [account_name \in DOMAIN transaction_files |-> all]

\* transactions_by_account with the account filter ignored
transactions_by_account_unfiltered(transaction_files, account_filter) ==
    transaction_files

\* Lines 142-147: the transactions of each directory the filter lets through
transactions_by_account(transaction_files, account_filter) ==
    [account_name \in {d \in DOMAIN transaction_files :
                          account_filter = {} \/ d \in account_filter} |->
        transaction_files[account_name]]

\* account_name = holding.account_name or path.parent.name, line 154
holding_account(entry) ==
    IF entry.holding.account_name # "" THEN entry.holding.account_name
    ELSE entry.directory

\* Lines 152-158 after the first n holdings read: the accounts in the order
\* their first holding was read (a dict keeps insertion order), each with its
\* holdings in the order read
RECURSIVE holdings_by_account(_, _, _)
holdings_by_account(holding_files, account_filter, n) ==
    IF n = 0 THEN <<>>
    ELSE LET sofar        == holdings_by_account(holding_files, account_filter, n - 1)
             account_name == holding_account(holding_files[n])
             at           == {i \in 1..Len(sofar) : sofar[i].account_name = account_name}
         IN  IF account_filter # {} /\ account_name \notin account_filter THEN sofar
             ELSE IF at = {}
             THEN Append(sofar, [account_name |-> account_name,
                                 holdings |-> <<holding_files[n].holding>>])
             ELSE [i \in 1..Len(sofar) |->
                     IF i \in at
                     THEN [account_name |-> account_name,
                           holdings |-> Append(sofar[i].holdings, holding_files[n].holding)]
                     ELSE sofar[i]]

\* valuation_dates_by_account[account_name], lines 158 and 163
valuation_dates_of(holdings) == {holdings[i].valuation_date : i \in 1..Len(holdings)}

(***************************************************************************)
(* reporting/income_report.py                                              *)
(***************************************************************************)
INCOME_DESCRIPTIONS == {"dividend", "account interest", "fees", "cash advantage"}

IncomeRecord(account_name, trade_date, symbol, description, debit, credit) ==
    [account_name |-> account_name, trade_date |-> trade_date, symbol |-> symbol,
     description |-> description, debit |-> debit, credit |-> credit]

IncomeSummary(account_name, month, symbol, description, total_amount) ==
    [account_name |-> account_name, month |-> month, symbol |-> symbol,
     description |-> description, total_amount |-> total_amount]

\* key=lambda record: effective_date(record), line 56
income_effective_dates(seq) == [i \in 1..Len(seq) |-> effective_date(seq[i])]

\* sorted_transactions, lines 54-57
income_sorted_transactions(transactions) ==
    LET dated == SelectSeq(transactions, LAMBDA record : effective_date(record) # NoDate)
    IN  sorted(dated, income_effective_dates(dated))

\* income_record_of_gain with a gain of zero taken for a loss
income_record_of_gain_strict(record, gain) ==
    IncomeRecord(record.account_name, effective_date(record), record.symbol,
                 "sell of securities",
                 IF DecSign(gain) > 0 THEN None ELSE DecNeg(gain),
                 IF DecSign(gain) > 0 THEN gain ELSE None)

\* The record a sell yields for its gain, lines 76-88
income_record_of_gain(record, gain) ==
    IncomeRecord(record.account_name, effective_date(record), record.symbol,
                 "sell of securities",
                 IF DecSign(gain) >= 0 THEN None ELSE DecNeg(gain),
                 IF DecSign(gain) >= 0 THEN gain ELSE None)

\* One pass of the loop of lines 58-89: positions as the pass leaves them and
\* the records yielded so far; an exception of the ledger ends the generator
income_records_step(record, before) ==
    IF before.raised # "" THEN before
    ELSE IF record.description \in INCOME_DESCRIPTIONS
    THEN [before EXCEPT !.yielded =
             Append(@, IncomeRecord(record.account_name, effective_date(record),
                                    record.symbol, record.description,
                                    record.debit, record.credit))]
    ELSE IF record.description \in {"buy", "sell"}
    THEN The({IF res.raised # ""
              THEN [before EXCEPT !.positions = res.positions, !.raised = res.raised]
              ELSE IF record.description = "buy" \/ res.gain = None
              THEN [before EXCEPT !.positions = res.positions]
              ELSE [before EXCEPT !.positions = res.positions,
                                  !.yielded = Append(@, income_record_of_gain(record,
                                                                              res.gain))] :
              res \in {apply_transaction_to_position_costs(record, before.positions)}})
    ELSE before

\* The loop of lines 58-89 over the first n of the sorted transactions
RECURSIVE income_records_loop(_, _)
income_records_loop(sorted_transactions, n) ==
    IF n = 0 THEN [positions |-> EmptyDict, yielded |-> <<>>, raised |-> ""]
    ELSE The({income_records_step(sorted_transactions[n], before) :
              before \in {income_records_loop(sorted_transactions, n - 1)}})

\* Everything the generator yields, its positions at the end, and the
\* exception that ended it
_income_records_from_transactions(transactions) ==
    The({income_records_loop(sorted_transactions, Len(sorted_transactions)) :
         sorted_transactions \in {income_sorted_transactions(transactions)}})

\* value.strftime("%Y-%m"), with the days counted from 1 January 2024 (day 1)
\* to 29 February 2024 (day 60)
_month_key(value) ==
    IF value = NoDate THEN "unknown"
    ELSE IF value <= 31 THEN "2024-01"
    ELSE "2024-02"

_amount(record) == DecSub(OrZero(record.credit), OrZero(record.debit))

\* The key of lines 118-122
totals_key(record) ==
    <<IF record.account_name = "" THEN "unknown" ELSE record.account_name,
      _month_key(record.trade_date),
      IF record.symbol = "" THEN "CASH" ELSE record.symbol,
      IF record.description = "" THEN "unknown" ELSE record.description>>

\* totals[key] += _amount(record), line 122; totals is the defaultdict as the
\* sequence of its items in insertion order
add_to_totals(totals, record) ==
    LET key == totals_key(record)
    IN  IF \E i \in 1..Len(totals) : totals[i].key = key
        THEN [i \in 1..Len(totals) |->
                 IF totals[i].key = key
                 THEN [totals[i] EXCEPT !.total = DecAdd(@, _amount(record))]
                 ELSE totals[i]]
        ELSE Append(totals, [key |-> key, total |-> DecAdd(Zero, _amount(record))])

\* Lines 115-122 for the first n records a file yields
RECURSIVE totals_loop(_, _, _, _)
totals_loop(totals, records, account_filter, n) ==
    IF n = 0 THEN totals
    ELSE The({IF account_filter # {} /\ records[n].account_name \notin account_filter
              THEN before
              ELSE add_to_totals(before, records[n]) :
              before \in {totals_loop(totals, records, account_filter, n - 1)}})

\* key=lambda row: (row.account_name, row.month, row.symbol, row.description),
\* line 134, the tuple as one number that orders as the tuple does
summary_key(row) ==
    ((str_key(row.account_name) * 100 + str_key(row.month)) * 100
        + str_key(row.symbol)) * 100 + str_key(row.description)

\* Lines 124-135: the summary rows of the totals, sorted
summary_of(totals) ==
    LET summary == [i \in 1..Len(totals) |->
                       IncomeSummary(totals[i].key[1], totals[i].key[2], totals[i].key[3],
                                     totals[i].key[4], totals[i].total)]
    IN  sorted(summary, [i \in 1..Len(summary) |-> summary_key(summary[i])])

(***************************************************************************)
(* State.                                                                  *)
(*                                                                         *)
(* The average-cost ledger: one positions dict folded by                   *)
(* apply_transaction_to_position_costs and one folded by the replay        *)
(* engine's _apply_transaction, both fed the same records from an empty    *)
(* dict.                                                                   *)
(***************************************************************************)
VARIABLES
    ledger,         \* the dict folded by apply_transaction_to_position_costs
    engine,         \* the dict folded by _apply_transaction
    applied,        \* the record applied last
    ledgerBefore,   \* ledger before the last apply
    engineBefore,   \* engine before the last apply
    returned,       \* what the last apply_transaction_to_position_costs returned
    raised,         \* the exception that ended the fold ("" while it runs)
    nApplied,       \* the number of records applied
    wellFormed,     \* whether every record applied so far was well-formed data
                    \* for the ledger it was applied to
    journal         \* for each apply that wrote to ledger, in order: the symbol
                    \* and the value, cost_basis, proceeds and result of the call

ledgerVars == <<ledger, engine, applied, ledgerBefore, engineBefore, returned,
                raised, nApplied, wellFormed, journal>>

(***************************************************************************)
(* One call of _book_costs_by_date, a step at a time.                      *)
(***************************************************************************)
VARIABLES
    replayTransactions,  \* the argument transactions, in input order
    replayDates,         \* the argument valuation_dates
    replaySortedDates,   \* sorted_dates
    replaySorted,        \* sorted_transactions
    replayPositions,     \* positions
    replayResults,       \* results
    replayIndex,         \* index
    replayDate,          \* how many of sorted_dates the for loop has taken
    replayPc,            \* "start", "for", "while" or "done"
    replayOrigin,        \* for each place of sorted_transactions, the place of
                         \* that record in the input
    replayTimes,         \* for each place of the input, how often the record
                         \* there has been applied
    replayIndexBefore,   \* index before the last step
    replayDicts,         \* the dict objects the call has created, by identity:
                         \* 0 is positions, d the dict stored for the d-th date
    replayStored         \* for each key of results, the identity of its dict

replayVars == <<replayTransactions, replayDates, replaySortedDates, replaySorted,
                replayPositions, replayResults, replayIndex, replayDate, replayPc,
                replayOrigin, replayTimes, replayIndexBefore, replayDicts,
                replayStored>>

(***************************************************************************)
(* One call of reconcile_positions, a step at a time.                      *)
(***************************************************************************)
VARIABLES
    reconcileTransactions,  \* the rows of the transactions file
    reconcileRows,          \* the rows of the holdings file
    reconcileDirectory,     \* holdings_path.parent.name
    reconcileDate,          \* valuation_date
    reconcilePositions,     \* positions
    reconcileHoldings,      \* holdings
    reconcileSymbols,       \* sorted(symbols)
    reconcileAt,            \* how many of the sorted symbols the loop has taken
    reconcileAccount,       \* account_name
    reconcileMismatches,    \* mismatches
    reconcilePc             \* "start", "read", "loop" or "done"

reconcileVars == <<reconcileTransactions, reconcileRows, reconcileDirectory,
                   reconcileDate, reconcilePositions, reconcileHoldings,
                   reconcileSymbols, reconcileAt, reconcileAccount,
                   reconcileMismatches, reconcilePc>>

(***************************************************************************)
(* One call of summarize_unrealized_gains, a step at a time.               *)
(***************************************************************************)
VARIABLES
    gainTransactionFiles,  \* for each directory with a transactions file, its records
    gainHoldingFiles,      \* the holdings of all the holdings files in the order
                           \* read, each with the directory of its file
    gainFilter,            \* account_filter
    gainTransactions,      \* transactions_by_account
    gainHoldings,          \* holdings_by_account, in insertion order
    gainAccountAt,         \* how many accounts the outer loop has taken
    gainHoldingAt,         \* how many holdings of the account the inner loop has taken
    gainBookCosts,         \* book_costs_by_date
    gainRows,              \* rows
    gainZeroCost,          \* the holdings processed whose replayed book cost was zero
    gainLocals,            \* market_value, book_cost, unrealized_gain and
                           \* unrealized_gain_pct of the holding taken last
    gainRaised,            \* the exception that ended the call ("" while it runs)
    gainPc                 \* "start", "holdings", "account", "holding" or "done"

gainVars == <<gainTransactionFiles, gainHoldingFiles, gainFilter, gainTransactions,
              gainHoldings, gainAccountAt, gainHoldingAt, gainBookCosts, gainRows,
              gainZeroCost, gainLocals, gainRaised, gainPc>>

(***************************************************************************)
(* One call of the resolver, the valuer and the ledger's apply on one      *)
(* record and one positions dict.                                          *)
(***************************************************************************)
VARIABLES
    valuedRecord,     \* record (None before the first call)
    valuedPositions,  \* positions as passed in
    valuedSigned,     \* infer_signed_quantity(record)
    valuedValue,      \* transaction_value(record, signed_quantity), None when the
                      \* signed quantity is undetermined and no call is made
    valuedResult      \* what apply_transaction_to_position_costs did

valuerVars == <<valuedRecord, valuedPositions, valuedSigned, valuedValue, valuedResult>>

(***************************************************************************)
(* One transactions file and one valuation date given to the three         *)
(* consumers of the effective date: _book_costs_by_date, the reconciler's  *)
(* build_positions and _income_records_from_transactions.                  *)
(***************************************************************************)
VARIABLES
    datedTransactions,  \* the records of the file, in file order
    datedValuation,     \* valuation_date
    datedCalled,        \* which of "replay", "reconcile" and "income" have been called
    datedReplay,        \* what _book_costs_by_date returned
    datedReconcile,     \* what reconcile.build_positions returned
    datedIncome         \* what _income_records_from_transactions yielded

datedVars == <<datedTransactions, datedValuation, datedCalled, datedReplay,
               datedReconcile, datedIncome>>

(***************************************************************************)
(* One call of summarize_income, a file at a time.                         *)
(***************************************************************************)
VARIABLES
    incomeFiles,    \* for each directory with a transactions file, its records
    incomeFilter,   \* account_filter
    incomeAt,       \* how many of the sorted paths the outer loop has taken
    incomeYielded,  \* for each file read, what _income_records_from_transactions yielded
    incomeTotals,   \* totals, its items in insertion order
    incomeSummary,  \* summary
    incomeRaised,   \* the exception that ended the call ("" while it runs)
    incomePc        \* "idle", "files" or "done"

incomeVars == <<incomeFiles, incomeFilter, incomeAt, incomeYielded, incomeTotals,
                incomeSummary, incomeRaised, incomePc>>

(***************************************************************************)
(* One run of the generator _income_records_from_transactions, a pass of   *)
(* its loop at a time.                                                     *)
(***************************************************************************)
VARIABLES
    deriveTransactions, \* transactions, in file order
    deriveSorted,       \* sorted_transactions
    deriveAt,           \* how many of the sorted transactions the loop has taken
    derivePositions,    \* positions
    deriveYielded,      \* the records yielded so far
    derivePasses,       \* for each pass taken: whether it called the ledger, what
                        \* the call returned, and the records the pass yielded
    deriveRaised,       \* the exception that ended the generator ("" while it runs)
    derivePc            \* "idle", "start", "loop" or "done"

deriveVars == <<deriveTransactions, deriveSorted, deriveAt, derivePositions,
                deriveYielded, derivePasses, deriveRaised, derivePc>>

vars == <<ledgerVars, replayVars, reconcileVars, gainVars, valuerVars, datedVars,
          incomeVars, deriveVars>>

\* What the actions of one group leave alone
otherThanLedger ==
    <<replayVars, reconcileVars, gainVars, valuerVars, datedVars, incomeVars,
      deriveVars>>
otherThanReplay ==
    <<ledgerVars, reconcileVars, gainVars, valuerVars, datedVars, incomeVars,
      deriveVars>>
otherThanReconcile ==
    <<ledgerVars, replayVars, gainVars, valuerVars, datedVars, incomeVars,
      deriveVars>>
otherThanGain ==
    <<ledgerVars, replayVars, reconcileVars, valuerVars, datedVars, incomeVars,
      deriveVars>>
otherThanValuer ==
    <<ledgerVars, replayVars, reconcileVars, gainVars, datedVars, incomeVars,
      deriveVars>>
otherThanDated ==
    <<ledgerVars, replayVars, reconcileVars, gainVars, valuerVars, incomeVars,
      deriveVars>>
otherThanIncome ==
    <<ledgerVars, replayVars, reconcileVars, gainVars, valuerVars, datedVars,
      deriveVars>>
otherThanDerive ==
    <<ledgerVars, replayVars, reconcileVars, gainVars, valuerVars, datedVars,
      incomeVars>>

(***************************************************************************)
(* The ledger fold                                                         *)
(***************************************************************************)
\* A buy or sell of a symbol at a price
Trade(symbol, description, quantity, price) ==
    TransactionRecord("A", 1, NoDate, symbol, quantity, price, description, None, None)

\* A record without a price
Unpriced(symbol, description, quantity, debit, credit) ==
    TransactionRecord("A", 1, NoDate, symbol, quantity, None, description, debit, credit)

\* The records the ledger is fed: priced and unpriced buys and sells, zero
\* and missing quantities, an income record, a second symbol, a missing symbol
LedgerRecords ==
    {Trade("X", "buy", Dec(10), Dec(5)), Trade("X", "buy", Dec(5), Dec(8)),
     Trade("X", "sell", Dec(5), Dec(9)), Trade("X", "sell", Dec(10), Dec(5)),
     Trade("X", "sell", Dec(20), Dec(5)),
     Unpriced("X", "buy", Dec(3), Dec(5), None), Trade("X", "sell", Dec(3), Dec(2))}
    \cup {Unpriced("X", d, Dec(5), debit, credit) :
            d \in {"buy", "sell"}, debit \in {None, Dec(7)}, credit \in {None, Dec(7)}}
    \cup {Trade("X", "buy", Zero, Dec(5)), Unpriced("X", "sell", Zero, None, None),
          Trade("X", "buy", None, Dec(5)),
          Unpriced("X", "dividend", Dec(5), None, Dec(7)),
          Trade("Y", "buy", Dec(10), Dec(5)), Trade("Y", "sell", Dec(5), Dec(9)),
          Trade("", "buy", Dec(10), Dec(5))}

\* The longest fold
MaxApplies == 4

\* Well-formed data: the record's value, when it has one, is not negative,
\* and a disposal sells no more than the ledger holds of the symbol
WellFormed(record, positions) ==
    LET signed_quantity == infer_signed_quantity(record)
        held == Get(positions, record.symbol, PositionCost(Zero, Zero)).quantity
    IN  signed_quantity # None =>
            /\ \/ transaction_value(record, signed_quantity) = None
               \/ DecSign(transaction_value(record, signed_quantity)) >= 0
            /\ DecSign(signed_quantity) < 0 => DecLe(DecNeg(signed_quantity), held)

\* No fold has begun
LedgerIdle ==
    /\ ledger = EmptyDict
    /\ engine = EmptyDict
    /\ applied = None
    /\ ledgerBefore = EmptyDict
    /\ engineBefore = EmptyDict
    /\ returned = None
    /\ raised = ""
    /\ nApplied = 0
    /\ wellFormed = TRUE
    /\ journal = <<>>

\* No call of _book_costs_by_date has been made
ReplayIdle ==
    /\ replayTransactions = <<>>
    /\ replayDates = {}
    /\ replaySortedDates = <<>>
    /\ replaySorted = <<>>
    /\ replayPositions = EmptyDict
    /\ replayResults = EmptyDict
    /\ replayIndex = 0
    /\ replayDate = 0
    /\ replayPc = "idle"
    /\ replayOrigin = <<>>
    /\ replayTimes = <<>>
    /\ replayIndexBefore = 0
    /\ replayDicts = EmptyDict
    /\ replayStored = EmptyDict

\* No call of reconcile_positions has been made
ReconcileIdle ==
    /\ reconcileTransactions = <<>>
    /\ reconcileRows = <<>>
    /\ reconcileDirectory = ""
    /\ reconcileDate = 0
    /\ reconcilePositions = EmptyDict
    /\ reconcileHoldings = EmptyDict
    /\ reconcileSymbols = <<>>
    /\ reconcileAt = 0
    /\ reconcileAccount = ""
    /\ reconcileMismatches = <<>>
    /\ reconcilePc = "idle"

\* No call of summarize_unrealized_gains has been made
GainIdle ==
    /\ gainTransactionFiles = EmptyDict
    /\ gainHoldingFiles = <<>>
    /\ gainFilter = {}
    /\ gainTransactions = EmptyDict
    /\ gainHoldings = <<>>
    /\ gainAccountAt = 0
    /\ gainHoldingAt = 0
    /\ gainBookCosts = EmptyDict
    /\ gainRows = <<>>
    /\ gainZeroCost = <<>>
    /\ gainLocals = None
    /\ gainRaised = ""
    /\ gainPc = "idle"

\* No record has been resolved or valued
ValuerIdle ==
    /\ valuedRecord = None
    /\ valuedPositions = EmptyDict
    /\ valuedSigned = None
    /\ valuedValue = None
    /\ valuedResult = Returned(EmptyDict, None)

\* No file has been given to the consumers of the effective date
DatedIdle ==
    /\ datedTransactions = <<>>
    /\ datedValuation = 0
    /\ datedCalled = {}
    /\ datedReplay = EmptyDict
    /\ datedReconcile = EmptyDict
    /\ datedIncome = <<>>

\* No call of summarize_income has been made
IncomeIdle ==
    /\ incomeFiles = EmptyDict
    /\ incomeFilter = {}
    /\ incomeAt = 0
    /\ incomeYielded = EmptyDict
    /\ incomeTotals = <<>>
    /\ incomeSummary = <<>>
    /\ incomeRaised = ""
    /\ incomePc = "idle"

\* The generator has not been created
DeriveIdle ==
    /\ deriveTransactions = <<>>
    /\ deriveSorted = <<>>
    /\ deriveAt = 0
    /\ derivePositions = EmptyDict
    /\ deriveYielded = <<>>
    /\ derivePasses = <<>>
    /\ deriveRaised = ""
    /\ derivePc = "idle"

\* Everything but one group is idle
IdleButLedger ==
    ReplayIdle /\ ReconcileIdle /\ GainIdle /\ ValuerIdle /\ DatedIdle /\ IncomeIdle
    /\ DeriveIdle
IdleButReplay ==
    LedgerIdle /\ ReconcileIdle /\ GainIdle /\ ValuerIdle /\ DatedIdle /\ IncomeIdle
    /\ DeriveIdle
IdleButReconcile ==
    LedgerIdle /\ ReplayIdle /\ GainIdle /\ ValuerIdle /\ DatedIdle /\ IncomeIdle
    /\ DeriveIdle
IdleButGain ==
    LedgerIdle /\ ReplayIdle /\ ReconcileIdle /\ ValuerIdle /\ DatedIdle /\ IncomeIdle
    /\ DeriveIdle
IdleButValuer ==
    LedgerIdle /\ ReplayIdle /\ ReconcileIdle /\ GainIdle /\ DatedIdle /\ IncomeIdle
    /\ DeriveIdle
IdleButDated ==
    LedgerIdle /\ ReplayIdle /\ ReconcileIdle /\ GainIdle /\ ValuerIdle /\ IncomeIdle
    /\ DeriveIdle
IdleButDerive ==
    LedgerIdle /\ ReplayIdle /\ ReconcileIdle /\ GainIdle /\ ValuerIdle /\ DatedIdle
    /\ IncomeIdle

LedgerInit == LedgerIdle /\ IdleButLedger

\* One more record applied to both dicts; an exception ends the fold
LedgerApply ==
    /\ nApplied < MaxApplies
    /\ raised = ""
    /\ \E record \in LedgerRecords :
         LET res  == apply_transaction_to_position_costs(record, ledger)
             eres == _apply_transaction(record, engine)
         IN  /\ applied' = record
             /\ ledgerBefore' = ledger
             /\ engineBefore' = engine
             /\ ledger' = res.positions
             /\ returned' = res.gain
             /\ engine' = eres.positions
             /\ raised' = IF res.raised # "" THEN res.raised ELSE eres.raised
             /\ nApplied' = nApplied + 1
             /\ wellFormed' = (wellFormed /\ WellFormed(record, ledger))
             /\ journal' = journal \o written(record, ledger, res.gain)
    /\ UNCHANGED otherThanLedger

LedgerNext == LedgerApply

LedgerSpec == LedgerInit /\ [][LedgerNext]_vars

(***************************************************************************)
(* The replay                                                              *)
(***************************************************************************)
\* A priced record of symbol X with the given dates
Dated(description, quantity, price, trade_date, settlement_date) ==
    TransactionRecord("A", trade_date, settlement_date, "X", quantity, price,
                      description, None, None)

\* The histories are drawn from buys and sells traded on days 1 to 4, a buy
\* with only a settlement date, a buy settled before it was traded and a buy
\* with no date at all
ReplayRecords ==
    {Dated("buy", Dec(10), Dec(5), 1, NoDate), Dated("buy", Dec(10), Dec(5), 2, NoDate),
     Dated("buy", Dec(10), Dec(5), NoDate, 2), Dated("buy", Dec(10), Dec(5), 3, 1),
     Dated("buy", Dec(10), Dec(5), 4, NoDate), Dated("buy", Dec(10), Dec(5), NoDate, NoDate),
     Dated("sell", Dec(5), Dec(9), 1, NoDate), Dated("sell", Dec(5), Dec(9), 2, NoDate),
     Dated("sell", Dec(5), Dec(9), 3, NoDate)}

\* The valuation dates are drawn from these days
ReplayDays == {1, 2, 3}

\* The longest history
MaxTransactions == 3

\* The sequences over S of length at most n
SeqUpTo(S, n) == UNION {[1..k -> S] : k \in 0..n}

ReplayInit ==
    /\ IdleButReplay
    /\ replayTransactions \in SeqUpTo(ReplayRecords, MaxTransactions)
    /\ replayDates \in SUBSET ReplayDays
    /\ replaySortedDates = <<>>
    /\ replaySorted = <<>>
    /\ replayPositions = EmptyDict
    /\ replayResults = EmptyDict
    /\ replayIndex = 0
    /\ replayDate = 0
    /\ replayPc = "start"
    /\ replayOrigin = <<>>
    /\ replayTimes = [i \in 1..Len(replayTransactions) |-> 0]
    /\ replayIndexBefore = 0
    /\ replayDicts = EmptyDict
    /\ replayStored = EmptyDict

\* Lines 104-111: the dates and the dated transactions sorted, the running
\* state emptied
ReplaySort ==
    /\ replayPc = "start"
    /\ replaySortedDates' = sorted_set(replayDates)
    /\ replaySorted' = sorted(with_effective_date(replayTransactions),
                             effective_dates(with_effective_date(replayTransactions)))
    /\ replayOrigin' =
           LET dated == SelectSeq([i \in 1..Len(replayTransactions) |-> i],
                                  LAMBDA i : _effective_date(replayTransactions[i]) # NoDate)
           IN  sorted(dated, [r \in 1..Len(dated) |->
                                 _effective_date(replayTransactions[dated[r]])])
    /\ replayDicts' = Put(EmptyDict, positions_dict, EmptyDict)
    /\ replayStored' = EmptyDict
    /\ replayPositions' = replayDicts'[positions_dict]
    /\ replayResults' = results_read(replayDicts', replayStored')
    /\ replayIndex' = 0
    /\ replayIndexBefore' = replayIndex
    /\ replayPc' = "for"
    /\ UNCHANGED <<replayTransactions, replayDates, replayDate, replayTimes>>
    /\ UNCHANGED otherThanReplay

\* Line 113: the for loop takes the next valuation date
ReplayNextDate ==
    /\ replayPc = "for"
    /\ replayDate < Len(replaySortedDates)
    /\ replayDate' = replayDate + 1
    /\ replayIndexBefore' = replayIndex
    /\ replayPc' = "while"
    /\ UNCHANGED <<replayTransactions, replayDates, replaySortedDates, replaySorted,
                   replayPositions, replayResults, replayIndex, replayOrigin,
                   replayTimes, replayDicts, replayStored>>
    /\ UNCHANGED otherThanReplay

\* Lines 114-120: the record at the cursor is not later than the valuation
\* date; it is applied and the cursor moves on
ReplayApply ==
    /\ replayPc = "while"
    /\ replayIndex < Len(replaySorted)
    /\ ~breaks_at(replaySorted[replayIndex + 1], replaySortedDates[replayDate])
    /\ \E after \in {_apply_transaction(replaySorted[replayIndex + 1],
                                         replayDicts[positions_dict]).positions} :
           replayDicts' = Put(replayDicts, positions_dict, after)
    /\ replayPositions' = replayDicts'[positions_dict]
    /\ replayResults' = results_read(replayDicts', replayStored)
    /\ replayIndex' = next_index(replayIndex)
    /\ replayIndexBefore' = replayIndex
    /\ replayTimes' = [replayTimes EXCEPT ![replayOrigin[replayIndex + 1]] = @ + 1]
    /\ UNCHANGED <<replayTransactions, replayDates, replaySortedDates, replaySorted,
                   replayDate, replayPc, replayOrigin, replayStored>>
    /\ UNCHANGED otherThanReplay

\* Lines 114-121: the cursor is at the end or at a later record; the while
\* loop ends and a copy of positions is stored for the valuation date
ReplaySnapshot ==
    /\ replayPc = "while"
    /\ IF replayIndex < Len(replaySorted)
       THEN breaks_at(replaySorted[replayIndex + 1], replaySortedDates[replayDate])
       ELSE TRUE
    /\ LET stored == positions_copied(replayDicts, replayDate)
       IN  /\ replayDicts' = stored.dicts
           /\ replayStored' = Put(replayStored, replaySortedDates[replayDate], stored.dict)
    /\ replayResults' = results_read(replayDicts', replayStored')
    /\ replayIndexBefore' = replayIndex
    /\ replayPc' = "for"
    /\ UNCHANGED <<replayTransactions, replayDates, replaySortedDates, replaySorted,
                   replayPositions, replayIndex, replayDate, replayOrigin, replayTimes>>
    /\ UNCHANGED otherThanReplay

\* Line 122: no valuation date is left; results is returned
ReplayReturn ==
    /\ replayPc = "for"
    /\ replayDate >= Len(replaySortedDates)
    /\ replayIndexBefore' = replayIndex
    /\ replayPc' = "done"
    /\ UNCHANGED <<replayTransactions, replayDates, replaySortedDates, replaySorted,
                   replayPositions, replayResults, replayIndex, replayDate,
                   replayOrigin, replayTimes, replayDicts, replayStored>>
    /\ UNCHANGED otherThanReplay

ReplayNext ==
    \/ ReplaySort
    \/ ReplayNextDate
    \/ ReplayApply
    \/ ReplaySnapshot
    \/ ReplayReturn

ReplaySpec == ReplayInit /\ [][ReplayNext]_vars

\* The call runs on one thread with no waits: while a statement is left to
\* run, one is run
ReplayRunSpec == ReplaySpec /\ WF_vars(ReplayNext)

(***************************************************************************)
(* The reconciliation                                                      *)
(***************************************************************************)
\* A transactions row of account A traded on the day
Row(symbol, description, quantity, debit, credit, trade_date) ==
    TransactionRow("A", trade_date, NoDate, symbol, quantity, description, debit, credit)

\* The transactions files are drawn from a bought and a sold X with the cash
\* leg the broker reports, a dividend on X, a buy of X with no cash leg, buys
\* of Y after the first day and with a settlement date only, and rows
\* without symbol, quantity or date
ReconcileTransactionRows ==
    {Row("X", "buy", Dec(10), Dec(50), None, 1),
     Row("X", "sell", Dec(4), None, Dec(20), 1),
     Row("X", "dividend", Dec(5), None, Dec(7), 1),
     Row("X", "buy", Dec(10), None, None, 1),
     Row("Y", "buy", Dec(3), Dec(9), None, 2),
     TransactionRow("A", NoDate, 1, "Y", Dec(3), "buy", Dec(9), None),
     Row("", "buy", Dec(10), Dec(50), None, 1),
     Row("X", "buy", None, Dec(50), None, 1),
     Row("X", "buy", Dec(10), Dec(50), None, NoDate)}

\* The holdings files are drawn from these rows
ReconcileHoldingsRows ==
    {HoldingsRow("X", Dec(10)), HoldingsRow("X", Dec(6)), HoldingsRow("Y", Dec(3)),
     HoldingsRow("Y", Zero), HoldingsRow("", Dec(5)), HoldingsRow("X", None)}

\* The valuation date is one of these days
ReconcileDays == {1, 2}

\* The longest transactions file and the longest holdings file
MaxRows == 2
MaxHoldingsRows == 2

ReconcileInit ==
    /\ IdleButReconcile
    /\ reconcileTransactions \in SeqUpTo(ReconcileTransactionRows, MaxRows)
    /\ reconcileRows \in SeqUpTo(ReconcileHoldingsRows, MaxHoldingsRows)
    /\ reconcileDirectory = "B"
    /\ reconcileDate \in ReconcileDays
    /\ reconcilePositions = EmptyDict
    /\ reconcileHoldings = EmptyDict
    /\ reconcileSymbols = <<>>
    /\ reconcileAt = 0
    /\ reconcileAccount = ""
    /\ reconcileMismatches = <<>>
    /\ reconcilePc = "start"

\* Lines 108-109: positions built from the transactions
ReconcileBuild ==
    /\ reconcilePc = "start"
    /\ reconcilePositions' = reconcile_build_positions(reconcileTransactions, reconcileDate)
    /\ reconcilePc' = "read"
    /\ UNCHANGED <<reconcileTransactions, reconcileRows, reconcileDirectory,
                   reconcileDate, reconcileHoldings, reconcileSymbols, reconcileAt,
                   reconcileAccount, reconcileMismatches>>
    /\ UNCHANGED otherThanReconcile

\* Lines 110-114: the holdings read, the symbols of both sides sorted, the
\* account named
ReconcileRead ==
    /\ reconcilePc = "read"
    /\ reconcileHoldings' = _read_holdings(reconcileRows)
    /\ reconcileMismatches' = <<>>
    /\ reconcileSymbols' =
           sorted_strings(DOMAIN reconcilePositions \cup DOMAIN _read_holdings(reconcileRows))
    /\ reconcileAccount' = IF reconcileTransactions # <<>>
                           THEN reconcileTransactions[1].account_name
                           ELSE reconcileDirectory
    /\ reconcilePc' = "loop"
    /\ UNCHANGED <<reconcileTransactions, reconcileRows, reconcileDirectory,
                   reconcileDate, reconcilePositions, reconcileAt>>
    /\ UNCHANGED otherThanReconcile

\* Lines 116-130: the next symbol compared
ReconcileCompare ==
    /\ reconcilePc = "loop"
    /\ reconcileAt < Len(reconcileSymbols)
    /\ reconcileMismatches' =
           compare_symbol(reconcileSymbols[reconcileAt + 1], reconcileAccount,
                          reconcileDate, reconcilePositions, reconcileHoldings,
                          reconcileMismatches)
    /\ reconcileAt' = reconcileAt + 1
    /\ UNCHANGED <<reconcileTransactions, reconcileRows, reconcileDirectory,
                   reconcileDate, reconcilePositions, reconcileHoldings,
                   reconcileSymbols, reconcileAccount, reconcilePc>>
    /\ UNCHANGED otherThanReconcile

\* Line 131: every symbol has been compared; mismatches is returned
ReconcileReturn ==
    /\ reconcilePc = "loop"
    /\ reconcileAt >= Len(reconcileSymbols)
    /\ reconcilePc' = "done"
    /\ UNCHANGED <<reconcileTransactions, reconcileRows, reconcileDirectory,
                   reconcileDate, reconcilePositions, reconcileHoldings,
                   reconcileSymbols, reconcileAt, reconcileAccount,
                   reconcileMismatches>>
    /\ UNCHANGED otherThanReconcile

ReconcileNext ==
    \/ ReconcileBuild
    \/ ReconcileRead
    \/ ReconcileCompare
    \/ ReconcileReturn

ReconcileSpec == ReconcileInit /\ [][ReconcileNext]_vars

(***************************************************************************)
(* The unrealized-gain report                                              *)
(***************************************************************************)
\* The transactions file of directory A is missing or holds one of these
\* histories: nothing, a buy of X, a buy of X sold in full the same day, a buy
\* of X at a price of six decimals, a buy of X at a price of three decimals
GainHistoriesOfA ==
    {<<>>,
     <<Dated("buy", Dec(10), Dec(5), 1, NoDate)>>,
     <<Dated("buy", Dec(10), Dec(5), 1, NoDate), Dated("sell", Dec(10), Dec(6), 1, NoDate)>>,
     <<Dated("buy", Dec(1), DecE(33333333, -6), 1, NoDate)>>,
     <<Dated("buy", Dec(1), DecE(33336, -3), 1, NoDate)>>}

\* The transactions file of directory B is missing or holds a buy of X
GainHistoriesOfB == {<<Dated("buy", Dec(3), Dec(3), 1, NoDate)>>}

\* The holdings read, each with the directory of its file: X of account A
\* valued by quantity and price, by a declared market value, on a later day
\* and with no value at all, Y (no history) in account A, a holding that
\* names no account, a holding of account B filed under A, and X of account
\* B with a market value of three decimals, X of account A with a declared
\* market value that is not quantity times price, and X of account A with a
\* market value of three decimals
GainHoldingEntries ==
    {[directory |-> "A", holding |-> HoldingRecord("A", 1, "X", Dec(10), Dec(6), None)],
     [directory |-> "A", holding |-> HoldingRecord("A", 1, "X", None, None, Dec(50))],
     [directory |-> "A", holding |-> HoldingRecord("A", 2, "X", None, None, None)],
     [directory |-> "A", holding |-> HoldingRecord("A", 1, "Y", None, None, Dec(50))],
     [directory |-> "A", holding |-> HoldingRecord("", 1, "X", None, None, Dec(75))],
     [directory |-> "A", holding |-> HoldingRecord("B", 1, "X", None, None, Dec(10))],
     [directory |-> "B", holding |-> HoldingRecord("B", 1, "X", None, None, DecE(12345, -3))],
     [directory |-> "A", holding |-> HoldingRecord("A", 1, "X", Dec(1), Dec(39), Dec(40))],
     [directory |-> "A", holding |-> HoldingRecord("A", 1, "X", None, None, DecE(40004, -3))]}

\* The account filters
GainFilters == {{}, {"A"}, {"B"}}

\* The most holdings read
MaxHoldings == 2

GainInit ==
    /\ IdleButGain
    /\ \E a \in GainHistoriesOfA, b \in GainHistoriesOfB, directories \in SUBSET {"A", "B"} :
         gainTransactionFiles = [d \in directories |-> IF d = "A" THEN a ELSE b]
    /\ gainHoldingFiles \in
           {files \in SeqUpTo(GainHoldingEntries, MaxHoldings) :
               \A i \in 1..Len(files), j \in 1..Len(files) :
                   i < j => str_key(files[i].directory) <= str_key(files[j].directory)}
    /\ gainFilter \in GainFilters
    /\ gainTransactions = EmptyDict
    /\ gainHoldings = <<>>
    /\ gainAccountAt = 0
    /\ gainHoldingAt = 0
    /\ gainBookCosts = EmptyDict
    /\ gainRows = <<>>
    /\ gainZeroCost = <<>>
    /\ gainLocals = None
    /\ gainRaised = ""
    /\ gainPc = "start"

\* Lines 140-147: the transactions files read
GainReadTransactions ==
    /\ gainPc = "start"
    /\ gainTransactions' = transactions_by_account(gainTransactionFiles, gainFilter)
    /\ gainPc' = "holdings"
    /\ UNCHANGED <<gainTransactionFiles, gainHoldingFiles, gainFilter, gainHoldings,
                   gainAccountAt, gainHoldingAt, gainBookCosts, gainRows, gainZeroCost, gainLocals,
                   gainRaised>>
    /\ UNCHANGED otherThanGain

\* Lines 149-160: the holdings files read
GainReadHoldings ==
    /\ gainPc = "holdings"
    /\ gainHoldings' = holdings_by_account(gainHoldingFiles, gainFilter,
                                           Len(gainHoldingFiles))
    /\ gainRows' = <<>>
    /\ gainPc' = "account"
    /\ UNCHANGED <<gainTransactionFiles, gainHoldingFiles, gainFilter, gainTransactions,
                   gainAccountAt, gainHoldingAt, gainBookCosts, gainZeroCost, gainLocals, gainRaised>>
    /\ UNCHANGED otherThanGain

\* Lines 161-164: the next account taken and its transactions replayed for
\* the valuation dates of its holdings
GainAccount ==
    /\ gainPc = "account"
    /\ gainAccountAt < Len(gainHoldings)
    /\ LET account_name == gainHoldings[gainAccountAt + 1].account_name
           holdings     == gainHoldings[gainAccountAt + 1].holdings
       IN  gainBookCosts' = _book_costs_by_date(Get(gainTransactions, account_name, <<>>),
                                                valuation_dates_of(holdings))
    /\ gainAccountAt' = gainAccountAt + 1
    /\ gainHoldingAt' = 0
    /\ gainPc' = "holding"
    /\ UNCHANGED <<gainTransactionFiles, gainHoldingFiles, gainFilter, gainTransactions,
                   gainHoldings, gainRows, gainZeroCost, gainLocals, gainRaised>>
    /\ UNCHANGED otherThanGain

\* Lines 166-189: the row of the next holding of the account appended; an
\* exception raised while the row is built ends the call
GainRow ==
    /\ gainPc = "holding"
    /\ gainHoldingAt < Len(gainHoldings[gainAccountAt].holdings)
    /\ LET account_name == gainHoldings[gainAccountAt].account_name
           holding      == gainHoldings[gainAccountAt].holdings[gainHoldingAt + 1]
           row          == unrealized_gain_row(account_name, holding, gainBookCosts)
           locals       == unrealized_gain_locals(holding, gainBookCosts)
           positions    == Get(gainBookCosts, holding.valuation_date, EmptyDict)
           position     == Get(positions, holding.symbol, PositionCost(Zero, Zero))
       IN  /\ gainZeroCost' = IF IsZero(position.book_cost)
                              THEN Append(gainZeroCost, holding) ELSE gainZeroCost
           /\ gainLocals' = locals
           /\ IF "raised" \in DOMAIN row
              THEN /\ gainRaised' = row.raised
                   /\ gainPc' = "done"
                   /\ UNCHANGED gainRows
              ELSE /\ gainRows' = Append(gainRows, row)
                   /\ UNCHANGED <<gainRaised, gainPc>>
    /\ gainHoldingAt' = gainHoldingAt + 1
    /\ UNCHANGED <<gainTransactionFiles, gainHoldingFiles, gainFilter, gainTransactions,
                   gainHoldings, gainAccountAt, gainBookCosts>>
    /\ UNCHANGED otherThanGain

\* Line 166: the account has no holding left
GainAccountDone ==
    /\ gainPc = "holding"
    /\ gainHoldingAt >= Len(gainHoldings[gainAccountAt].holdings)
    /\ gainPc' = "account"
    /\ UNCHANGED <<gainTransactionFiles, gainHoldingFiles, gainFilter, gainTransactions,
                   gainHoldings, gainAccountAt, gainHoldingAt, gainBookCosts, gainRows,
                   gainZeroCost, gainLocals, gainRaised>>
    /\ UNCHANGED otherThanGain

\* Lines 191-192: no account is left; the rows are sorted and returned
GainReturn ==
    /\ gainPc = "account"
    /\ gainAccountAt >= Len(gainHoldings)
    /\ gainRows' = sorted(gainRows, [i \in 1..Len(gainRows) |-> row_key(gainRows[i])])
    /\ gainPc' = "done"
    /\ UNCHANGED <<gainTransactionFiles, gainHoldingFiles, gainFilter, gainTransactions,
                   gainHoldings, gainAccountAt, gainHoldingAt, gainBookCosts,
                   gainZeroCost, gainLocals, gainRaised>>
    /\ UNCHANGED otherThanGain

GainNext ==
    \/ GainReadTransactions
    \/ GainReadHoldings
    \/ GainAccount
    \/ GainRow
    \/ GainAccountDone
    \/ GainReturn

GainSpec == GainInit /\ [][GainNext]_vars

(***************************************************************************)
(* The resolver, the valuer and one apply of the ledger, on any record     *)
(***************************************************************************)
\* The fields the records are built from: missing, zero, positive and
\* negative numbers, mapped and unmapped descriptions, a missing symbol
ValuerQuantities == {None, Zero, Dec(5), Dec(-5)}
ValuerDescriptions == {"buy", "sell", "dividend", "fees", ""}
ValuerPrices == {None, Dec(9), Dec(-2)}
ValuerDebits == {None, Dec(7)}
ValuerCredits == {None, Dec(11)}
ValuerSymbols == {"X", ""}
ValuerPositions == {EmptyDict, Put(EmptyDict, "X", PositionCost(Dec(10), Dec(60)))}

ValuerInit == ValuerIdle /\ IdleButValuer

\* infer_signed_quantity, transaction_value as the ledger calls it, and
\* apply_transaction_to_position_costs, on one record and one dict
ValuerCall ==
    /\ \E quantity \in ValuerQuantities, description \in ValuerDescriptions,
          price \in ValuerPrices, debit \in ValuerDebits, credit \in ValuerCredits,
          symbol \in ValuerSymbols, positions \in ValuerPositions :
         LET record == TransactionRecord("A", 1, NoDate, symbol, quantity, price,
                                         description, debit, credit)
             signed_quantity == infer_signed_quantity(record)
         IN  /\ valuedRecord' = record
             /\ valuedPositions' = positions
             /\ valuedSigned' = signed_quantity
             /\ valuedValue' = IF signed_quantity = None THEN None
                               ELSE transaction_value(record, signed_quantity)
             /\ valuedResult' = apply_transaction_to_position_costs(record, positions)
    /\ UNCHANGED otherThanValuer

ValuerNext == ValuerCall

ValuerSpec == ValuerInit /\ [][ValuerNext]_vars

(***************************************************************************)
(* The consumers of the effective date on one file                         *)
(***************************************************************************)
\* A row of the file: a buy of 5 X @ 4 paid 20, a sale of 5 X @ 6 for 30, or
\* a dividend of 3 on X
DatedRow(description, trade_date, settlement_date) ==
    TransactionRecord("A", trade_date, settlement_date, "X",
                      IF description = "dividend" THEN None ELSE Dec(5),
                      IF description = "buy" THEN Dec(4)
                      ELSE IF description = "sell" THEN Dec(6) ELSE None,
                      description,
                      IF description = "buy" THEN Dec(20) ELSE None,
                      IF description = "sell" THEN Dec(30)
                      ELSE IF description = "dividend" THEN Dec(3) ELSE None)

\* The trade and settlement dates of a row: neither, the trade date alone,
\* the settlement date alone, a trade date after the settlement date
DatedPairs == {<<NoDate, NoDate>>, <<2, NoDate>>, <<NoDate, 2>>, <<3, 1>>, <<1, 3>>}

DatedRecords ==
    {DatedRow(description, pair[1], pair[2]) :
        description \in {"buy", "sell", "dividend"}, pair \in DatedPairs}

DatedDays == {1, 2}

\* The longest file
MaxDated == 2

\* reconcile.py _read_transactions, lines 45-58: the same row of the file as
\* the reconciler reads it
transaction_row_of(record) ==
    TransactionRow(record.account_name, record.trade_date, record.settlement_date,
                   record.symbol, record.quantity, record.description, record.debit,
                   record.credit)

DatedInit ==
    /\ IdleButDated
    /\ datedTransactions \in SeqUpTo(DatedRecords, MaxDated)
    /\ datedValuation \in DatedDays
    /\ datedCalled = {}
    /\ datedReplay = EmptyDict
    /\ datedReconcile = EmptyDict
    /\ datedIncome = <<>>

\* _book_costs_by_date(transactions, {valuation_date})
DatedReplay ==
    /\ "replay" \notin datedCalled
    /\ datedCalled' = datedCalled \cup {"replay"}
    /\ datedReplay' = _book_costs_by_date(datedTransactions, {datedValuation})
    /\ UNCHANGED <<datedTransactions, datedValuation, datedReconcile, datedIncome>>
    /\ UNCHANGED otherThanDated

\* reconcile.build_positions(transactions, valuation_date)
DatedReconcile ==
    /\ "reconcile" \notin datedCalled
    /\ datedCalled' = datedCalled \cup {"reconcile"}
    /\ datedReconcile' =
           reconcile_build_positions([i \in 1..Len(datedTransactions) |->
                                         transaction_row_of(datedTransactions[i])],
                                     datedValuation)
    /\ UNCHANGED <<datedTransactions, datedValuation, datedReplay, datedIncome>>
    /\ UNCHANGED otherThanDated

\* list(_income_records_from_transactions(transactions))
DatedIncome ==
    /\ "income" \notin datedCalled
    /\ datedCalled' = datedCalled \cup {"income"}
    /\ datedIncome' = _income_records_from_transactions(datedTransactions).yielded
    /\ UNCHANGED <<datedTransactions, datedValuation, datedReplay, datedReconcile>>
    /\ UNCHANGED otherThanDated

DatedNext ==
    \/ DatedReplay
    \/ DatedReconcile
    \/ DatedIncome

DatedSpec == DatedInit /\ [][DatedNext]_vars

(***************************************************************************)
(* The two reports on the same transactions root, holdings root and        *)
(* accounts: summarize_unrealized_gains and summarize_income               *)
(***************************************************************************)
\* A row of the transactions file of a directory, as normalize_transactions
\* writes it: the account named is the directory, the symbol is X
Filed(directory, description, quantity, price, credit, trade_date) ==
    TransactionRecord(directory, trade_date, NoDate, "X", quantity, price, description,
                      None, credit)

\* The transactions file of directory A is missing or holds a buy, a buy and
\* a sale at a gain, or a buy and a dividend paid the month after
ReportHistoriesOfA ==
    {<<Filed("A", "buy", Dec(10), Dec(5), None, 1)>>,
     <<Filed("A", "buy", Dec(10), Dec(5), None, 1),
       Filed("A", "sell", Dec(5), Dec(9), None, 2)>>,
     <<Filed("A", "dividend", None, None, Dec(3), 40),
       Filed("A", "buy", Dec(10), Dec(5), None, 1)>>}

\* The transactions file of directory B is missing or holds a buy of the same
\* symbol, alone or with a sale at a loss
ReportHistoriesOfB ==
    {<<Filed("B", "buy", Dec(3), Dec(3), None, 1)>>,
     <<Filed("B", "buy", Dec(3), Dec(3), None, 1),
       Filed("B", "sell", Dec(1), Dec(2), None, 2)>>}

\* The holdings read: X in both accounts, and Y (no history) in account A
ReportHoldingEntries ==
    {[directory |-> "A", holding |-> HoldingRecord("A", 2, "X", None, None, Dec(60))],
     [directory |-> "A", holding |-> HoldingRecord("A", 2, "Y", None, None, Dec(5))],
     [directory |-> "B", holding |-> HoldingRecord("B", 2, "X", None, None, Dec(10))]}

ReportFilters == {{}, {"A"}, {"B"}}

\* The most holdings read
MaxReportHoldings == 2

ReportsInit ==
    /\ LedgerIdle /\ ReplayIdle /\ ReconcileIdle /\ ValuerIdle /\ DatedIdle /\ DeriveIdle
    /\ \E a \in ReportHistoriesOfA, b \in ReportHistoriesOfB,
          directories \in SUBSET {"A", "B"} :
         gainTransactionFiles = [d \in directories |-> IF d = "A" THEN a ELSE b]
    /\ gainHoldingFiles \in
           {files \in SeqUpTo(ReportHoldingEntries, MaxReportHoldings) :
               \A i \in 1..Len(files), j \in 1..Len(files) :
                   i < j => str_key(files[i].directory) <= str_key(files[j].directory)}
    /\ gainFilter \in ReportFilters
    /\ gainTransactions = EmptyDict
    /\ gainHoldings = <<>>
    /\ gainAccountAt = 0
    /\ gainHoldingAt = 0
    /\ gainBookCosts = EmptyDict
    /\ gainRows = <<>>
    /\ gainZeroCost = <<>>
    /\ gainLocals = None
    /\ gainRaised = ""
    /\ gainPc = "start"
    /\ incomeFiles = gainTransactionFiles
    /\ incomeFilter = gainFilter
    /\ incomeAt = 0
    /\ incomeYielded = EmptyDict
    /\ incomeTotals = <<>>
    /\ incomeSummary = <<>>
    /\ incomeRaised = ""
    /\ incomePc = "files"

\* sorted(transactions_root.rglob("transactions_normalized.csv")), line 110,
\* each path as its directory
income_paths(files) == sorted_strings(DOMAIN files)

\* Lines 110-122 for the next path: a file the filter rejects is passed over,
\* any other is read and what it yields is added to the totals
IncomeFile ==
    /\ incomePc = "files"
    /\ incomeAt < Len(income_paths(incomeFiles))
    /\ LET account_name == income_paths(incomeFiles)[incomeAt + 1]
           res          == _income_records_from_transactions(incomeFiles[account_name])
       IN  IF incomeFilter # {} /\ account_name \notin incomeFilter
           THEN UNCHANGED <<incomeYielded, incomeTotals, incomeRaised, incomePc>>
           ELSE /\ incomeYielded' = Put(incomeYielded, account_name, res.yielded)
                /\ incomeTotals' = totals_loop(incomeTotals, res.yielded, incomeFilter,
                                               Len(res.yielded))
                /\ incomeRaised' = res.raised
                /\ incomePc' = IF res.raised # "" THEN "done" ELSE incomePc
    /\ incomeAt' = incomeAt + 1
    /\ UNCHANGED <<incomeFiles, incomeFilter, incomeSummary>>
    /\ UNCHANGED otherThanIncome

\* Lines 124-135: the summary built, sorted and returned
IncomeReturn ==
    /\ incomePc = "files"
    /\ incomeAt >= Len(income_paths(incomeFiles))
    /\ incomeSummary' = summary_of(incomeTotals)
    /\ incomePc' = "done"
    /\ UNCHANGED <<incomeFiles, incomeFilter, incomeAt, incomeYielded, incomeTotals,
                   incomeRaised>>
    /\ UNCHANGED otherThanIncome

IncomeNext ==
    \/ IncomeFile
    \/ IncomeReturn

ReportsNext ==
    \/ GainNext
    \/ IncomeNext

ReportsSpec == ReportsInit /\ [][ReportsNext]_vars

(***************************************************************************)
(* The generator of income records on one account's file                   *)
(***************************************************************************)
\* The rows of the file: buys of 4 X @ 5, sales of 2 X above, below and at
\* the average cost, a sale with neither price nor credit, a dividend, and
\* rows with no date
DeriveRecords ==
    {Filed("A", "buy", Dec(4), Dec(5), None, 1),
     Filed("A", "buy", Dec(4), Dec(5), None, 2),
     Filed("A", "sell", Dec(2), Dec(9), None, 1),
     Filed("A", "sell", Dec(2), Dec(9), None, 2),
     Filed("A", "sell", Dec(2), Dec(3), None, 2),
     Filed("A", "sell", Dec(2), Dec(5), None, 2),
     Filed("A", "sell", Dec(2), None, None, 2),
     Filed("A", "dividend", None, None, Dec(3), 1),
     Filed("A", "buy", Dec(4), Dec(5), None, NoDate),
     Filed("A", "sell", Dec(2), Dec(9), None, NoDate)}

\* The longest file
MaxDerived == 3

DeriveInit ==
    /\ IdleButDerive
    /\ deriveTransactions \in SeqUpTo(DeriveRecords, MaxDerived)
    /\ deriveSorted = <<>>
    /\ deriveAt = 0
    /\ derivePositions = EmptyDict
    /\ deriveYielded = <<>>
    /\ derivePasses = <<>>
    /\ deriveRaised = ""
    /\ derivePc = "start"

\* Lines 53-57: the empty positions and the sorted transactions
DeriveSort ==
    /\ derivePc = "start"
    /\ derivePositions' = EmptyDict
    /\ deriveSorted' = income_sorted_transactions(deriveTransactions)
    /\ derivePc' = "loop"
    /\ UNCHANGED <<deriveTransactions, deriveAt, deriveYielded, derivePasses, deriveRaised>>
    /\ UNCHANGED otherThanDerive

\* What a pass is seen to do: the call of the ledger it makes, if any, and
\* the records added to those yielded
pass_taken(record, positions, yielded_before, yielded_after) ==
    The({[called  |-> record.description \in {"buy", "sell"},
          gain    |-> IF record.description \in {"buy", "sell"} THEN res.gain ELSE None,
          yielded |-> SubSeq(yielded_after, Len(yielded_before) + 1, Len(yielded_after))] :
         res \in {IF record.description \in {"buy", "sell"}
                  THEN apply_transaction_to_position_costs(record, positions)
                  ELSE Returned(positions, None)}})

\* One pass of the loop of lines 58-89
DerivePass ==
    /\ derivePc = "loop"
    /\ deriveAt < Len(deriveSorted)
    /\ \E after \in {income_records_step(deriveSorted[deriveAt + 1],
                                         [positions |-> derivePositions,
                                          yielded |-> deriveYielded,
                                          raised |-> ""])} :
          /\ derivePositions' = after.positions
          /\ deriveYielded' = after.yielded
          /\ deriveRaised' = after.raised
          /\ derivePc' = IF after.raised # "" THEN "done" ELSE "loop"
          /\ derivePasses' = Append(derivePasses,
                                    pass_taken(deriveSorted[deriveAt + 1], derivePositions,
                                               deriveYielded, after.yielded))
    /\ deriveAt' = deriveAt + 1
    /\ UNCHANGED <<deriveTransactions, deriveSorted>>
    /\ UNCHANGED otherThanDerive

\* The loop of line 58 is exhausted: the generator ends
DeriveReturn ==
    /\ derivePc = "loop"
    /\ deriveAt >= Len(deriveSorted)
    /\ derivePc' = "done"
    /\ UNCHANGED <<deriveTransactions, deriveSorted, deriveAt, derivePositions,
                   deriveYielded, derivePasses, deriveRaised>>
    /\ UNCHANGED otherThanDerive

DeriveNext ==
    \/ DeriveSort
    \/ DerivePass
    \/ DeriveReturn

DeriveSpec == DeriveInit /\ [][DeriveNext]_vars

(***************************************************************************)
(* The ledger's claims                                                     *)
(***************************************************************************)
Buy10at5 == Trade("X", "buy", Dec(10), Dec(5))
Buy5at8  == Trade("X", "buy", Dec(5), Dec(8))
Sell5at9 == Trade("X", "sell", Dec(5), Dec(9))

\* The last apply was of a record with a symbol and this sign of signed quantity
LastApplied(sign) ==
    /\ nApplied > 0
    /\ applied.symbol # ""
    /\ applied.quantity # None
    /\ \/ applied.description = "buy" /\ DecSign(applied.quantity) = sign
       \/ applied.description = "sell" /\ DecSign(applied.quantity) = -sign

\* The signed quantity of the record applied last: +quantity for a buy,
\* -quantity for a sell
SignedQuantity == IF applied.description = "buy" THEN applied.quantity
                  ELSE DecNeg(applied.quantity)

\* The position of the record's symbol before and after the last apply
OldPosition == Get(ledgerBefore, applied.symbol, PositionCost(Zero, Zero))
NewPosition == Get(ledger, applied.symbol, PositionCost(Zero, Zero))

\* C3: an acquisition (signed quantity > 0) of symbol S adds the signed
\* quantity to S's quantity and the transaction value (zero when it is
\* undetermined) to S's book_cost and returns no realized gain; buy 10 @ 5
\* then buy 5 @ 8 from an empty ledger gives quantity 15, book_cost 90.
C3_AcquisitionAccumulates ==
    LastApplied(1) =>
        LET value == transaction_value(applied, SignedQuantity)
        IN  /\ raised = "" /\ returned = None
            /\ applied.symbol \in DOMAIN ledger
            /\ NewPosition.quantity = DecAdd(OldPosition.quantity, SignedQuantity)
            /\ NewPosition.book_cost =
                   DecAdd(OldPosition.book_cost, IF value = None THEN Zero ELSE value)
            /\ (applied.price = None /\ applied.debit = None) =>
                   NewPosition.book_cost = OldPosition.book_cost
            /\ (ledgerBefore = EmptyDict /\ applied = Buy10at5) =>
                   NewPosition = PositionCost(Dec(10), Dec(50))
            /\ (OldPosition = PositionCost(Dec(10), Dec(50)) /\ applied = Buy5at8) =>
                   NewPosition = PositionCost(Dec(15), Dec(90))

\* buy 5 @ 8 has been applied to quantity 10, book_cost 50
C3_Witness ==
    /\ LastApplied(1) /\ applied = Buy5at8
    /\ OldPosition = PositionCost(Dec(10), Dec(50))
    /\ NewPosition = PositionCost(Dec(15), Dec(90))

\* C4: a disposal of sell_qty with determined proceeds from a position of
\* non-zero quantity has cost_basis = (book_cost / quantity) * sell_qty, takes
\* sell_qty off the quantity and cost_basis off the book_cost and returns
\* proceeds - cost_basis; from quantity 15, book_cost 90, sell 5 @ 9 returns
\* 15 and leaves quantity 10, book_cost 60.
C4_DisposalRealizesGain ==
    (/\ LastApplied(-1)
     /\ transaction_value(applied, SignedQuantity) # None
     /\ ~IsZero(OldPosition.quantity)) =>
        LET proceeds   == transaction_value(applied, SignedQuantity)
            sell_qty   == DecNeg(SignedQuantity)
            cost_basis == DecMul(DecDiv(OldPosition.book_cost, OldPosition.quantity),
                                 sell_qty)
        IN  /\ raised = ""
            /\ NewPosition.quantity = DecSub(OldPosition.quantity, sell_qty)
            /\ NewPosition.book_cost = DecSub(OldPosition.book_cost, cost_basis)
            /\ returned = DecSub(proceeds, cost_basis)
            /\ (OldPosition = PositionCost(Dec(15), Dec(90)) /\ applied = Sell5at9) =>
                   /\ returned = Dec(15)
                   /\ NewPosition = PositionCost(Dec(10), Dec(60))

\* sell 5 @ 9 has been applied to quantity 15, book_cost 90
C4_Witness ==
    /\ LastApplied(-1) /\ applied = Sell5at9
    /\ OldPosition = PositionCost(Dec(15), Dec(90))
    /\ returned = Dec(15)

\* C6: folding the replay engine's _apply_transaction from an empty mapping
\* gives the same quantity and book_cost per symbol as folding
\* apply_transaction_to_position_costs over the same records, sells of
\* undetermined proceeds included.
C6_EngineMatchesLedger ==
    \A symbol \in DOMAIN engine \cup DOMAIN ledger :
        Get(engine, symbol, PositionCost(Zero, Zero))
            = Get(ledger, symbol, PositionCost(Zero, Zero))

\* C9: a disposal whose value is undetermined (no price and no credit) leaves
\* the symbol-to-PositionCost mapping exactly as it was and returns none.
C9_UndeterminedDisposalNoOp ==
    (/\ nApplied > 0
     /\ applied.quantity # None
     /\ \/ applied.description = "sell" /\ DecSign(applied.quantity) > 0
        \/ applied.description = "buy" /\ DecSign(applied.quantity) < 0
     /\ applied.price = None /\ applied.credit = None) =>
        /\ ledger = ledgerBefore
        /\ returned = None
        /\ raised = ""

\* a sell without price or credit has been applied to a held position
C9_Witness ==
    /\ nApplied > 0
    /\ applied = Unpriced("X", "sell", Dec(5), Dec(7), None)
    /\ "X" \in DOMAIN ledgerBefore
    /\ ~IsZero(ledgerBefore["X"].quantity)
    /\ ledger = ledgerBefore

\* C10: book_cost / quantity is evaluated only when quantity is non-zero: no
\* apply raises a division by zero, and a disposal with determined proceeds
\* from a position whose quantity is zero (or from no position) has cost
\* basis 0: book_cost is unchanged, quantity is minus the sold quantity and
\* the full proceeds are returned; the replay engine's disposal leaves the
\* same position.
C10_ZeroQuantityDisposal ==
    /\ raised = ""
    /\ LastApplied(-1) =>
        LET proceeds == transaction_value(applied, SignedQuantity)
            oldE     == Get(engineBefore, applied.symbol, PositionCost(Zero, Zero))
        IN  /\ (IsZero(OldPosition.quantity) /\ proceeds # None) =>
                   /\ applied.symbol \in DOMAIN ledger
                   /\ NewPosition = PositionCost(SignedQuantity, OldPosition.book_cost)
                   /\ returned = proceeds
            /\ IsZero(oldE.quantity) =>
                   /\ applied.symbol \in DOMAIN engine
                   /\ engine[applied.symbol] = PositionCost(SignedQuantity, oldE.book_cost)

\* a priced sell has been applied to a position of quantity zero that still
\* carries a book cost
C10_Witness ==
    /\ LastApplied(-1)
    /\ applied.price # None
    /\ applied.symbol \in DOMAIN ledgerBefore
    /\ IsZero(OldPosition.quantity)
    /\ ~IsZero(OldPosition.book_cost)
    /\ returned = DecMul(applied.price, applied.quantity)

(***************************************************************************)
(* The replay's claims                                                     *)
(***************************************************************************)
\* _apply_transaction folded over seq[1..n] from an empty mapping
RECURSIVE ReplayedFromEmpty(_, _)
ReplayedFromEmpty(seq, n) ==
    IF n = 0 THEN EmptyDict
    ELSE _apply_transaction(seq[n], ReplayedFromEmpty(seq, n - 1)).positions

\* The transactions of a history whose effective date is <= D, in ascending
\* effective-date order (equal dates in input order)
UpTo(history, D) ==
    LET upTo == SelectSeq(history, LAMBDA record : /\ _effective_date(record) # NoDate
                                                   /\ _effective_date(record) <= D)
    IN  sorted(upTo, effective_dates(upTo))

\* The ledger state at D: exactly the transactions up to D applied from empty
LedgerStateAt(history, D) == ReplayedFromEmpty(UpTo(history, D), Len(UpTo(history, D)))

\* C1: the snapshot _book_costs_by_date stores for a valuation date D is the
\* ledger state obtained by applying from empty, in ascending effective-date
\* order, exactly the transactions with effective date <= D, whatever the
\* input order; the call returns one snapshot per requested date, and each is
\* the snapshot a call with that date alone returns.
C1_SnapshotIsReplayUpToDate ==
    /\ \A D \in DOMAIN replayResults :
           replayResults[D] = LedgerStateAt(replayTransactions, D)
    /\ replayPc = "done" =>
           /\ DOMAIN replayResults = replayDates
           /\ replayResults = _book_costs_by_date(replayTransactions, replayDates)
           /\ \A D \in replayDates :
                  replayResults[D] = _book_costs_by_date(replayTransactions, {D})[D]

\* a history given out of date order has been replayed for two dates with
\* different snapshots, the later record of the input in the earlier one only
C1_Witness ==
    /\ replayPc = "done"
    /\ Len(replayTransactions) >= 2
    /\ _effective_date(replayTransactions[1]) = 3
    /\ _effective_date(replayTransactions[2]) = 1
    /\ replayDates = {1, 3}
    /\ replayResults[1] = [s \in {"X"} |-> PositionCost(Dec(10), Dec(50))]
    /\ replayResults[3] = [s \in {"X"} |-> PositionCost(Dec(5), Dec(25))]

\* The latest requested valuation date (0 when none is requested)
LatestDate == IF replayDates = {} THEN 0
              ELSE CHOOSE d \in replayDates : \A e \in replayDates : e <= d

\* C2: the cursor never moves backwards; no transaction is applied more than
\* once; when the replay has returned, every transaction with effective date
\* <= the latest requested date has been applied exactly once and every other
\* transaction (later than every requested date, or undated) never.
C2_CursorAppliesOnce ==
    /\ replayIndex >= replayIndexBefore
    /\ \A i \in DOMAIN replayTimes : replayTimes[i] <= 1
    /\ replayPc = "done" =>
           \A i \in DOMAIN replayTimes :
               LET date == _effective_date(replayTransactions[i])
               IN  replayTimes[i] = IF date # NoDate /\ date <= LatestDate THEN 1 ELSE 0

\* a replay over two dates has returned: the cursor moved for each date, one
\* record was applied for the first date, one for the second and one, later
\* than both, never
C2_Witness ==
    /\ replayPc = "done"
    /\ replayDates = {1, 2}
    /\ Len(replayTransactions) = 3
    /\ _effective_date(replayTransactions[1]) = 4
    /\ _effective_date(replayTransactions[2]) = 2
    /\ _effective_date(replayTransactions[3]) = 1
    /\ replayTimes = <<0, 1, 1>>
    /\ replayIndex = 2
    /\ replayResults[1] # replayResults[2]

(***************************************************************************)
(* The report's claims                                                     *)
(***************************************************************************)
\* C5: a holding whose replayed book cost is zero gets a row with
\* unrealized_gain = market value and unrealized_gain_pct absent, and the
\* run goes on: no exception ends it.
C5_ZeroBookCostRow ==
    /\ gainRaised = ""
    /\ \A i \in 1..Len(gainZeroCost) :
           \E j \in 1..Len(gainRows) :
               /\ gainRows[j].valuation_date = gainZeroCost[i].valuation_date
               /\ gainRows[j].symbol = gainZeroCost[i].symbol
               /\ gainRows[j].unrealized_gain = DecRound(_market_value(gainZeroCost[i]), 2)
               /\ gainRows[j].unrealized_gain_pct = None

(***************************************************************************)
(* The reconciliation's claims                                             *)
(***************************************************************************)
\* C7: the reconciler's transaction-derived quantity of every symbol is the
\* sum of the signed quantities the Signed-Quantity Resolver gives (+quantity
\* for buy, -quantity for sell, nothing for any other description, whatever
\* debit and credit hold) over the symbol's transactions with effective date
\* <= the valuation date.
C7_QuantityFromResolver ==
    reconcilePc \in {"read", "loop", "done"} =>
        LET resolved == build_positions(reconcileTransactions, reconcileDate)
        IN  \A symbol \in DOMAIN reconcilePositions \cup DOMAIN resolved :
                Get(reconcilePositions, symbol, Zero) = Get(resolved, symbol, Zero)

\* The symbols the loop has compared
Compared == {reconcileSymbols[r] : r \in 1..reconcileAt}

\* The quantities of a symbol on the two sides, a missing side as zero
HoldingsQuantity(symbol) == Get(reconcileHoldings, symbol, Zero)
TransactionQuantity(symbol) == Get(reconcilePositions, symbol, Zero)

\* C8: a PositionMismatch is emitted for a symbol if and only if its holdings
\* quantity differs from its transaction-derived quantity, over the symbols of
\* either side with a missing side counted as zero; at most one per symbol,
\* each with delta = holdings_quantity - transaction_quantity, never zero.
C8_MismatchIffQuantitiesDiffer ==
    /\ \A i \in 1..Len(reconcileMismatches) :
           LET mismatch == reconcileMismatches[i]
           IN  /\ mismatch.symbol \in Compared
               /\ mismatch.holdings_quantity = HoldingsQuantity(mismatch.symbol)
               /\ mismatch.transaction_quantity = TransactionQuantity(mismatch.symbol)
               /\ mismatch.holdings_quantity # mismatch.transaction_quantity
               /\ mismatch.delta = DecSub(mismatch.holdings_quantity,
                                          mismatch.transaction_quantity)
               /\ ~IsZero(mismatch.delta)
               /\ \A j \in 1..Len(reconcileMismatches) :
                      reconcileMismatches[j].symbol = mismatch.symbol => j = i
    /\ \A symbol \in Compared :
           HoldingsQuantity(symbol) # TransactionQuantity(symbol) =>
               \E i \in 1..Len(reconcileMismatches) :
                   reconcileMismatches[i].symbol = symbol
    /\ reconcilePc = "done" =>
           /\ Compared = DOMAIN reconcilePositions \cup DOMAIN reconcileHoldings
           /\ reconcileMismatches =
                  reconcile_positions(reconcileTransactions, reconcileRows,
                                      reconcileDirectory, reconcileDate)

\* the reconciliation has returned: X is held short of the transactions'
\* quantity and is the one mismatch, with a negative delta; Y, on the holdings
\* side twice and on the transactions side once, agrees and has none
C8_Witness ==
    /\ reconcilePc = "done"
    /\ Compared = {"X", "Y"}
    /\ "Y" \in DOMAIN reconcilePositions
    /\ Len(reconcileRows) = 2
    /\ reconcileRows[1].symbol = "Y" /\ reconcileRows[2].symbol = "Y"
    /\ Len(reconcileMismatches) = 1
    /\ reconcileMismatches[1].symbol = "X"
    /\ reconcileMismatches[1].holdings_quantity = Zero
    /\ reconcileMismatches[1].delta = Dec(-10)

(***************************************************************************)
(* The ledger's claims, continued                                          *)
(***************************************************************************)
Sell20at5 == Trade("X", "sell", Dec(20), Dec(5))

\* C11: a disposal with determined proceeds of more than the held quantity
\* q > 0 is neither rejected nor clamped: quantity becomes q - sell_qty < 0
\* and book_cost becomes book_cost - (book_cost / q) * sell_qty; selling 20
\* from quantity 10, book_cost 60 gives quantity -10, book_cost -60.
C11_OversellNotClamped ==
    (/\ LastApplied(-1)
     /\ transaction_value(applied, SignedQuantity) # None
     /\ DecSign(OldPosition.quantity) > 0
     /\ DecLt(OldPosition.quantity, DecNeg(SignedQuantity))) =>
        LET sell_qty == DecNeg(SignedQuantity)
        IN  /\ raised = ""
            /\ returned # None
            /\ NewPosition.quantity = DecSub(OldPosition.quantity, sell_qty)
            /\ DecSign(NewPosition.quantity) < 0
            /\ NewPosition.book_cost =
                   DecSub(OldPosition.book_cost,
                          DecMul(DecDiv(OldPosition.book_cost, OldPosition.quantity),
                                 sell_qty))
            /\ (OldPosition = PositionCost(Dec(10), Dec(60)) /\ applied = Sell20at5) =>
                   NewPosition = PositionCost(Dec(-10), Dec(-60))

\* 20 have been sold from quantity 10, book_cost 60
C11_Witness ==
    /\ LastApplied(-1) /\ applied = Sell20at5
    /\ OldPosition = PositionCost(Dec(10), Dec(60))
    /\ NewPosition = PositionCost(Dec(-10), Dec(-60))

(***************************************************************************)
(* The resolver's and the valuer's claims                                  *)
(***************************************************************************)
\* A call has been made
Valued == valuedRecord # None

\* The number of the same magnitude and the opposite sign
Opposite(d) == IF IsZero(d) THEN d ELSE [d EXCEPT !.sign = 1 - d.sign]

\* C12: the resolver returns the quantity for a buy, the quantity with the
\* opposite sign for a sell, and nothing for every other description and for a
\* missing quantity; and when it returns nothing or the symbol is missing, the
\* ledger's apply leaves the positions as they were and returns none.
C12_ResolverAndNoOp ==
    Valued =>
        /\ valuedSigned =
               IF valuedRecord.quantity = None THEN None
               ELSE IF valuedRecord.description = "buy" THEN valuedRecord.quantity
               ELSE IF valuedRecord.description = "sell" THEN Opposite(valuedRecord.quantity)
               ELSE None
        /\ (valuedSigned = None \/ valuedRecord.symbol = "") =>
               valuedResult = Returned(valuedPositions, None)

\* An income record with a quantity and a symbol, applied to a held position
C12_Witness ==
    /\ Valued
    /\ valuedRecord.description = "dividend"
    /\ valuedRecord.quantity = Dec(5)
    /\ valuedRecord.symbol = "X"
    /\ valuedSigned = None
    /\ valuedPositions = Put(EmptyDict, "X", PositionCost(Dec(10), Dec(60)))
    /\ valuedResult = Returned(valuedPositions, None)

\* The number without its sign
Magnitude(d) == [d EXCEPT !.sign = 0]

\* C13: with a price and a quantity the value is the product of their
\* magnitudes, never negative, whatever the debit and the credit; otherwise a
\* disposal with a credit is valued at the credit, an acquisition with a debit
\* at the debit, and every other record has no value.
C13_ValuerPrecedence ==
    (Valued /\ valuedSigned # None) =>
        IF valuedRecord.price # None /\ valuedRecord.quantity # None
        THEN /\ valuedValue # None
             /\ DecSign(valuedValue) >= 0
             /\ valuedValue = DecMul(Magnitude(valuedRecord.price),
                                     Magnitude(valuedRecord.quantity))
        ELSE IF DecSign(valuedSigned) < 0 /\ valuedRecord.credit # None
        THEN valuedValue = valuedRecord.credit
        ELSE IF DecSign(valuedSigned) > 0 /\ valuedRecord.debit # None
        THEN valuedValue = valuedRecord.debit
        ELSE valuedValue = None

(***************************************************************************)
(* The gain calculator's claims                                            *)
(***************************************************************************)
\* The loop body has run for a holding, which is the one taken last
HoldingTaken == gainHoldingAt > 0 /\ (gainPc = "holding" \/ gainRaised # "")
TakenAccount == gainHoldings[gainAccountAt].account_name
TakenHolding == gainHoldings[gainAccountAt].holdings[gainHoldingAt]

\* The position that replaying the account's transactions up to the
\* holding's valuation date leaves for the holding's symbol; no entry when
\* the symbol has no history up to that date
ReplayedPositions ==
    _book_costs_by_date(Get(gainTransactions, TakenAccount, <<>>),
                        {TakenHolding.valuation_date})[TakenHolding.valuation_date]

\* C14: for each holding the calculator takes the declared market value if
\* there is one, else quantity times price if both are there, else zero; the
\* book cost of the position replayed for the holding's account, symbol and
\* valuation date, or zero when the symbol has no history; and their
\* difference as the unrealized gain.
C14_GainLocals ==
    HoldingTaken =>
        /\ gainLocals.market_value =
               IF TakenHolding.market_value # None THEN TakenHolding.market_value
               ELSE IF TakenHolding.quantity # None /\ TakenHolding.price # None
               THEN DecMul(TakenHolding.quantity, TakenHolding.price)
               ELSE Zero
        /\ gainLocals.book_cost =
               IF TakenHolding.symbol \in DOMAIN ReplayedPositions
               THEN ReplayedPositions[TakenHolding.symbol].book_cost
               ELSE Zero
        /\ gainLocals.unrealized_gain =
               DecSub(gainLocals.market_value, gainLocals.book_cost)

\* X of account A, 1 @ 39 with a declared market value of 40, bought as
\* 10 @ 5: market value 40, book cost 50, unrealized gain -10
C14_Witness ==
    /\ HoldingTaken
    /\ TakenHolding = HoldingRecord("A", 1, "X", Dec(1), Dec(39), Dec(40))
    /\ ReplayedPositions = Put(EmptyDict, "X", PositionCost(Dec(10), Dec(50)))
    /\ gainLocals.market_value = Dec(40)
    /\ gainLocals.book_cost = Dec(50)
    /\ gainLocals.unrealized_gain = Dec(-10)
    /\ gainRows # <<>>
    /\ gainRows[Len(gainRows)].unrealized_gain = Dec(-10)

\* The loop body has appended the row of the holding taken last
RowAppended == HoldingTaken /\ gainRaised = "" /\ gainPc = "holding"
AppendedRow == gainRows[Len(gainRows)]
UnroundedMarketValue == _market_value(TakenHolding)
UnroundedBookCost ==
    Get(ReplayedPositions, TakenHolding.symbol, PositionCost(Zero, Zero)).book_cost

\* C15: the unrealized gain of a row is the difference of the unrounded
\* market value and the unrounded book cost, rounded to two places, and the
\* percentage the unrounded ratio rounded to four places; the replayed book
\* cost and the locals are not rounded.  A book cost of 33.333333 and a
\* market value of 40 give 6.67 and 0.2000; 33.336 and 40.004 give 6.67, not
\* the 6.66 that 40.00 - 33.34 would give.
C15_RoundedAtOutputOnly ==
    RowAppended =>
        /\ gainLocals.market_value = UnroundedMarketValue
        /\ gainLocals.book_cost = UnroundedBookCost
        /\ AppendedRow.market_value = DecRound(UnroundedMarketValue, 2)
        /\ AppendedRow.book_cost = DecRound(UnroundedBookCost, 2)
        /\ AppendedRow.unrealized_gain =
               DecRound(DecSub(UnroundedMarketValue, UnroundedBookCost), 2)
        /\ AppendedRow.unrealized_gain_pct =
               DecRound(DecDiv(DecSub(UnroundedMarketValue, UnroundedBookCost),
                               UnroundedBookCost), 4)
        /\ (UnroundedBookCost = DecE(33333333, -6) /\ UnroundedMarketValue = Dec(40)) =>
               /\ AppendedRow.unrealized_gain = DecE(667, -2)
               /\ AppendedRow.unrealized_gain_pct = DecE(2, -1)
               /\ AppendedRow.book_cost = DecE(3333, -2)
        /\ (UnroundedBookCost = DecE(33336, -3) /\ UnroundedMarketValue = DecE(40004, -3)) =>
               /\ AppendedRow.unrealized_gain = DecE(667, -2)
               /\ AppendedRow.unrealized_gain_pct = DecE(2, -1)
               /\ AppendedRow.book_cost = DecE(3334, -2)
               /\ AppendedRow.market_value = Dec(40)

\* The row of a holding of 40.004 whose replayed book cost is 33.336
C15_Witness ==
    /\ RowAppended
    /\ UnroundedBookCost = DecE(33336, -3)
    /\ UnroundedMarketValue = DecE(40004, -3)
    /\ gainBookCosts[1]["X"].book_cost = DecE(33336, -3)
    /\ AppendedRow.unrealized_gain = DecE(667, -2)

(***************************************************************************)
(* The effective date's claim                                              *)
(***************************************************************************)
\* The trade date when there is one, the settlement date otherwise
TradeElseSettlement(record) ==
    IF record.trade_date # NoDate THEN record.trade_date ELSE record.settlement_date

\* The records of the file that have a date
DatedOnly ==
    SelectSeq(datedTransactions, LAMBDA record : TradeElseSettlement(record) # NoDate)

\* The records of the file that count towards D: those dated D or earlier
CountedAt(D) ==
    SelectSeq(datedTransactions, LAMBDA record : /\ TradeElseSettlement(record) # NoDate
                                                 /\ TradeElseSettlement(record) <= D)

\* The same in ascending order of date, equal dates in file order
CountedInOrder(D) ==
    sorted(CountedAt(D), [i \in 1..Len(CountedAt(D)) |-> TradeElseSettlement(CountedAt(D)[i])])

\* A day after every date of the model
FarDay == 9

\* C16: the effective date is the trade date, else the settlement date.  The
\* replay's snapshot for D and the reconciler's positions at D are built from
\* exactly the records dated D or earlier, D itself included, and the
\* realized-gain derivation from exactly the dated records, each of which it
\* reports under its effective date; a record with neither date is applied by
\* none of the three.
C16_EffectiveDate ==
    /\ "replay" \in datedCalled =>
           /\ DOMAIN datedReplay = {datedValuation}
           /\ datedReplay[datedValuation] =
                  ReplayedFromEmpty(CountedInOrder(datedValuation),
                                    Len(CountedInOrder(datedValuation)))
    /\ "reconcile" \in datedCalled =>
           datedReconcile =
               reconcile_build_positions(
                   [i \in 1..Len(CountedAt(datedValuation)) |->
                       transaction_row_of(CountedAt(datedValuation)[i])], FarDay)
    /\ "income" \in datedCalled =>
           /\ datedIncome = _income_records_from_transactions(DatedOnly).yielded
           /\ Len(datedIncome) <= Len(DatedOnly)
           /\ \A i \in 1..Len(datedIncome) :
                  \E j \in 1..Len(DatedOnly) :
                      /\ datedIncome[i].trade_date = TradeElseSettlement(DatedOnly[j])
                      /\ datedIncome[i].description \in {"sell of securities", "dividend"}
                      /\ (datedIncome[i].description = "dividend") =
                             (DatedOnly[j].description = "dividend")
                      /\ (datedIncome[i].description = "sell of securities") =
                             (DatedOnly[j].description = "sell")

\* A file of a sale without dates, then a buy traded on day 2, valued on
\* day 2: the buy is in the snapshot and in the reconciler's positions, the
\* sale is in neither and yields no realized gain
C16_Witness ==
    /\ datedCalled = {"replay", "reconcile", "income"}
    /\ datedValuation = 2
    /\ datedTransactions = <<DatedRow("sell", NoDate, NoDate), DatedRow("buy", 2, NoDate)>>
    /\ datedReplay[2] = Put(EmptyDict, "X", PositionCost(Dec(5), Dec(20)))
    /\ datedReconcile = Put(EmptyDict, "X", Dec(5))
    /\ datedIncome = <<>>

(***************************************************************************)
(* The accounts' claims                                                    *)
(***************************************************************************)
\* What an account has of its own in the input: the records of the
\* transactions file of its directory, and the valuation dates of its holdings
OwnTransactions(account_name) == Get(gainTransactionFiles, account_name, <<>>)
OwnDates(account_name) ==
    {gainHoldingFiles[i].holding.valuation_date :
        i \in {j \in 1..Len(gainHoldingFiles) :
                  holding_account(gainHoldingFiles[j]) = account_name}}

\* The snapshots of an account replayed alone
OwnSnapshots(account_name) ==
    _book_costs_by_date(OwnTransactions(account_name), OwnDates(account_name))

\* What the file of an account yields when it is the only file
OwnYield(account_name) == _income_records_from_transactions(incomeFiles[account_name]).yielded

\* The summary of an account whose file is the only file
OwnSummary(account_name) ==
    summary_of(totals_loop(<<>>, OwnYield(account_name), {}, Len(OwnYield(account_name))))

BuyAndSaleOfA ==
    <<Filed("A", "buy", Dec(10), Dec(5), None, 1), Filed("A", "sell", Dec(5), Dec(9), None, 2)>>
BuyAndSaleOfB ==
    <<Filed("B", "buy", Dec(3), Dec(3), None, 1), Filed("B", "sell", Dec(1), Dec(2), None, 2)>>

\* C17: whatever the other account's files hold and whenever they are
\* processed, the snapshots replayed for an account, the records its sales
\* yield and its rows in both reports are those of the account processed
\* alone; A's sale of 5 X @ 9 out of 10 bought @ 5 realizes 20 and leaves
\* (5, 25) also when B trades X.
C17_AccountsIndependent ==
    /\ gainPc = "holding" =>
           /\ gainBookCosts = OwnSnapshots(TakenAccount)
           /\ (TakenAccount = "A" /\ OwnTransactions("A") = BuyAndSaleOfA) =>
                  gainBookCosts[2] = Put(EmptyDict, "X", PositionCost(Dec(5), Dec(25)))
    /\ RowAppended =>
           AppendedRow = unrealized_gain_row(TakenAccount, TakenHolding,
                                             OwnSnapshots(TakenAccount))
    /\ \A account_name \in DOMAIN incomeYielded :
           /\ incomeYielded[account_name] = OwnYield(account_name)
           /\ (account_name = "A" /\ incomeFiles["A"] = BuyAndSaleOfA) =>
                  incomeYielded["A"] =
                      <<IncomeRecord("A", 2, "X", "sell of securities", None, Dec(20))>>
    /\ (incomePc = "done" /\ incomeRaised = "") =>
           \A account_name \in DOMAIN incomeYielded :
               SelectSeq(incomeSummary, LAMBDA row : row.account_name = account_name)
                   = OwnSummary(account_name)

\* Both reports done for A and B, which both bought and sold X
C17_Witness ==
    /\ gainPc = "done" /\ gainRaised = ""
    /\ incomePc = "done" /\ incomeRaised = ""
    /\ incomeFiles = [d \in {"A", "B"} |-> IF d = "A" THEN BuyAndSaleOfA ELSE BuyAndSaleOfB]
    /\ Len(gainRows) = 2
    /\ gainRows[1].account_name = "A" /\ gainRows[1].book_cost = Dec(25)
    /\ gainRows[2].account_name = "B" /\ gainRows[2].book_cost = Dec(6)
    /\ incomeSummary =
           <<IncomeSummary("A", "2024-01", "X", "sell of securities", Dec(20)),
             IncomeSummary("B", "2024-01", "X", "sell of securities", Dec(-1))>>

\* The accounts of the holdings read, and of the holdings kept
HoldingAccountsRead ==
    {holding_account(gainHoldingFiles[i]) : i \in 1..Len(gainHoldingFiles)}
HoldingAccountsKept == {gainHoldings[i].account_name : i \in 1..Len(gainHoldings)}

\* The accounts a filter lets through
Admitted(account_filter, accounts) ==
    IF account_filter = {} THEN accounts ELSE accounts \cap account_filter

\* C19: with an empty filter both entry points take every account; with a
\* filter they take the accounts it names and no other: no file and no holding
\* of another account is kept or read into the totals, and every row of both
\* reports is of a named account.
C19_AccountFilter ==
    /\ gainPc # "start" =>
           DOMAIN gainTransactions = Admitted(gainFilter, DOMAIN gainTransactionFiles)
    /\ gainPc \notin {"start", "holdings"} =>
           HoldingAccountsKept = Admitted(gainFilter, HoldingAccountsRead)
    /\ \A i \in 1..Len(gainRows) :
           gainRows[i].account_name \in Admitted(gainFilter, HoldingAccountsRead)
    /\ DOMAIN incomeYielded \subseteq Admitted(incomeFilter, DOMAIN incomeFiles)
    /\ (incomePc = "done" /\ incomeRaised = "") =>
           DOMAIN incomeYielded = Admitted(incomeFilter, DOMAIN incomeFiles)
    /\ \A i \in 1..Len(incomeTotals) :
           incomeTotals[i].key[1] \in Admitted(incomeFilter, DOMAIN incomeFiles)
    /\ \A i \in 1..Len(incomeSummary) :
           incomeSummary[i].account_name \in Admitted(incomeFilter, DOMAIN incomeFiles)

\* Both reports done for the filter {A} on files and holdings of A and B:
\* one row each, of A
C19_Witness ==
    /\ gainFilter = {"A"} /\ incomeFilter = {"A"}
    /\ gainPc = "done" /\ gainRaised = "" /\ incomePc = "done"
    /\ incomeFiles = [d \in {"A", "B"} |-> IF d = "A" THEN BuyAndSaleOfA ELSE BuyAndSaleOfB]
    /\ HoldingAccountsRead = {"A", "B"}
    /\ Len(gainRows) = 1 /\ gainRows[1].account_name = "A"
    /\ incomeSummary = <<IncomeSummary("A", "2024-01", "X", "sell of securities", Dec(20))>>

(***************************************************************************)
(* The ledger's claims on whole histories                                  *)
(***************************************************************************)
\* A record the ledger cannot resolve: no signed quantity (the quantity is
\* missing or the description is not buy or sell), no symbol, or a disposal
\* with neither price nor credit
Unresolvable(record) ==
    \/ infer_signed_quantity(record) = None
    \/ record.symbol = ""
    \/ /\ DecSign(infer_signed_quantity(record)) <= 0
       /\ transaction_value(record, infer_signed_quantity(record)) = None

\* C18: no history makes the ledger or the replay engine raise, and a record
\* that cannot be resolved leaves the positions of both as they were, so that
\* the records after it are applied as if it had not been there.
C18_UnresolvableSkipped ==
    /\ raised = ""
    /\ (nApplied > 0 /\ Unresolvable(applied)) =>
           /\ ledger = ledgerBefore
           /\ returned = None
           /\ engine = engineBefore

\* C20: after any sequence of applies of well-formed data no symbol of the
\* ledger has a negative quantity or a negative book cost.
C20_NeverNegative ==
    wellFormed =>
        \A symbol \in DOMAIN ledger :
            /\ DecSign(ledger[symbol].quantity) >= 0
            /\ DecSign(ledger[symbol].book_cost) >= 0

(***************************************************************************)
(* The order of the replay                                                 *)
(***************************************************************************)
\* The places of the input whose record has an effective date
DatedPlaces == {i \in DOMAIN replayTransactions :
                    _effective_date(replayTransactions[i]) # NoDate}

\* The effective date of the record at a place of sorted_transactions
SortedDate(r) == _effective_date(replaySorted[r])

\* C21: once sorted, the replay's list holds exactly the dated records of the
\* input, in non-decreasing effective-date order, records that share an
\* effective date in their order in the input; the records applied so far are
\* the first index records of that list, applied in that order, so a buy
\* listed before a same-day sell is applied before it.
C21_SourceOrderWithinDate ==
    replayPc # "start" =>
        /\ Len(replayOrigin) = Len(replaySorted)
        /\ {replayOrigin[r] : r \in DOMAIN replayOrigin} = DatedPlaces
        /\ Len(replaySorted) = Cardinality(DatedPlaces)
        /\ \A r \in DOMAIN replaySorted :
               replaySorted[r] = replayTransactions[replayOrigin[r]]
        /\ \A r, s \in DOMAIN replaySorted :
               r < s => \/ SortedDate(r) < SortedDate(s)
                        \/ /\ SortedDate(r) = SortedDate(s)
                           /\ replayOrigin[r] < replayOrigin[s]
        /\ replayPositions = ReplayedFromEmpty(replaySorted, replayIndex)
        /\ \A i \in DOMAIN replayTimes :
               replayTimes[i] = IF \E r \in 1..replayIndex : replayOrigin[r] = i
                                THEN 1 ELSE 0

\* a buy of day 1 listed after a buy of day 2 and before a sell of day 1 has
\* been replayed: the buy of day 1 first, the sell of the same day second (5
\* left at the buy's average cost), the buy of day 2 last
C21_Witness ==
    /\ replayPc = "done"
    /\ replayTransactions = <<Dated("buy", Dec(10), Dec(5), 2, NoDate),
                              Dated("buy", Dec(10), Dec(5), 1, NoDate),
                              Dated("sell", Dec(5), Dec(9), 1, NoDate)>>
    /\ replayDates = {1, 2}
    /\ replayOrigin = <<2, 3, 1>>
    /\ replayResults[1] = [s \in {"X"} |-> PositionCost(Dec(5), Dec(25))]
    /\ replayResults[2] = [s \in {"X"} |-> PositionCost(Dec(15), Dec(75))]

\* C22: a snapshot is a dict of its own: every step of the replay leaves the
\* snapshot stored for every earlier valuation date as it was, and each
\* snapshot still holds the positions it was taken from when later
\* transactions have been applied.
C22_SnapshotUnchangedLater ==
    [][/\ \A D \in DOMAIN replayResults :
              /\ D \in DOMAIN replayResults'
              /\ replayResults'[D] = replayResults[D]
       /\ \A D \in DOMAIN replayStored' :
              /\ replayStored'[D] # positions_dict
              /\ \A E \in DOMAIN replayStored' :
                     D # E => replayStored'[D] # replayStored'[E]]_vars

\* a snapshot was stored for day 1, the replay went on to apply a sale of day
\* 2 and stored another for day 2; the first still holds the 10 bought
C22_Witness ==
    /\ replayPc = "done"
    /\ replayDates = {1, 2}
    /\ replayResults[1] = [s \in {"X"} |-> PositionCost(Dec(10), Dec(50))]
    /\ replayResults[2] = [s \in {"X"} |-> PositionCost(Dec(5), Dec(25))]
    /\ replayPositions = replayResults[2]
    /\ replayIndex = 2

(***************************************************************************)
(* The order of the reconciler's output                                    *)
(***************************************************************************)
\* The orders in which the rows of a file can be listed
Reordered(rows) ==
    {[i \in DOMAIN rows |-> rows[p[i]]] :
        p \in {q \in [DOMAIN rows -> DOMAIN rows] :
                   \A i, j \in DOMAIN rows : i # j => q[i] # q[j]}}

\* The symbols of the returned list ascend strictly
AscendingSymbols ==
    \A i, j \in DOMAIN reconcileMismatches :
        i < j => str_key(reconcileMismatches[i].symbol)
                     < str_key(reconcileMismatches[j].symbol)

\* C23: the list reconcile_positions returns is in strictly ascending symbol
\* order, and the same transactions and the same holdings rows listed in any
\* other order give the same list.
C23_SortedWhateverTheOrder ==
    reconcilePc = "done" =>
        /\ AscendingSymbols
        /\ \A transactions \in Reordered(reconcileTransactions) :
               \A rows \in Reordered(reconcileRows) :
                   reconcile_positions(transactions, rows, reconcileDirectory,
                                       reconcileDate) = reconcileMismatches

(***************************************************************************)
(* The replay ends                                                         *)
(***************************************************************************)
\* How many times a record has been applied so far, over the first n places
\* of the input
RECURSIVE AppliesSoFar(_)
AppliesSoFar(n) == IF n = 0 THEN 0 ELSE replayTimes[n] + AppliesSoFar(n - 1)

\* The cursor is at the end of the list or at a record later than the
\* valuation date the for loop is at
AtEndOrLater ==
    IF replayIndex < Len(replaySorted)
    THEN _effective_date(replaySorted[replayIndex + 1]) > replaySortedDates[replayDate]
    ELSE TRUE

\* C24: every call of the replay returns; each turn of the while loop either
\* applies one record and moves the cursor on by one, or leaves the loop with
\* the cursor where it is, at the end of the list or at the first record later
\* than the valuation date; never more applies have been made than there are
\* transactions, and the result returned has one snapshot for each distinct
\* valuation date.
C24_ReplayTerminates ==
    /\ [][replayPc = "while" =>
              \/ /\ replayPc' = "while"
                 /\ replayIndex' = replayIndex + 1
                 /\ AppliesSoFar(Len(replayTransactions))'
                        = AppliesSoFar(Len(replayTransactions)) + 1
                 /\ ~AtEndOrLater
              \/ /\ replayPc' = "for"
                 /\ replayIndex' = replayIndex
                 /\ AppliesSoFar(Len(replayTransactions))'
                        = AppliesSoFar(Len(replayTransactions))
                 /\ AtEndOrLater
                 /\ replaySortedDates[replayDate] \in DOMAIN replayResults']_vars
    /\ [](/\ AppliesSoFar(Len(replayTransactions)) <= Len(replayTransactions)
          /\ AppliesSoFar(Len(replayTransactions)) = replayIndex
          /\ replayPc = "done" => /\ DOMAIN replayResults = replayDates
                                  /\ Len(replaySortedDates) = Cardinality(replayDates))
    /\ <>[](replayPc = "done")

\* a replay of three records for three dates has returned: two applies, the
\* record of day 4 left, three snapshots
C24_Witness ==
    /\ replayPc = "done"
    /\ Len(replayTransactions) = 3
    /\ replayDates = {1, 2, 3}
    /\ AppliesSoFar(3) = 2
    /\ replayIndex = 2
    /\ _effective_date(replayTransactions[2]) = 4
    /\ DOMAIN replayResults = {1, 2, 3}

(***************************************************************************)
(* The books of the ledger                                                 *)
(***************************************************************************)
\* a + b and a - b as numbers, not rounded to the context
ExactAdd(a, b) ==
    The({IF IsZero(x) THEN y
         ELSE IF IsZero(y) THEN x
         ELSE LET e  == IF x.exp < y.exp THEN x.exp ELSE y.exp
                  cx == NatShift(x.coef, x.exp - e)
                  cy == NatShift(y.coef, y.exp - e)
                  c  == NatCmp(cx, cy)
              IN  IF x.sign = y.sign THEN DecNorm(x.sign, NatAdd(cx, cy), e)
                  ELSE IF c = 0 THEN Zero
                  ELSE IF c > 0 THEN DecNorm(x.sign, NatSub(cx, cy), e)
                  ELSE DecNorm(y.sign, NatSub(cy, cx), e) :
         x \in {a}, y \in {b}})

ExactSub(a, b) == ExactAdd(a, IF IsZero(b) THEN b ELSE [b EXCEPT !.sign = 1 - b.sign])

\* The sum of a field over the first n entries of the journal that are of the symbol
RECURSIVE SumOf(_, _, _)
SumOf(symbol, field, n) ==
    IF n = 0 THEN Zero
    ELSE IF journal[n].symbol = symbol
    THEN ExactAdd(SumOf(symbol, field, n - 1), journal[n][field])
    ELSE SumOf(symbol, field, n - 1)

\* The sum of a field over all the applies written for the symbol so far
Total(symbol, field) == SumOf(symbol, field, Len(journal))

\* The book cost the ledger holds for the symbol
BookCost(symbol) == Get(ledger, symbol, PositionCost(Zero, Zero)).book_cost

\* C25: after any sequence of applies, for every symbol the book cost is the
\* sum of the values of the acquisitions applied minus the sum of the cost
\* bases the disposals applied took off, and the sum of the gains returned is
\* the sum of the disposals' proceeds minus the sum of the acquisitions'
\* values plus the book cost.
C25_CostBasisConserved ==
    \A symbol \in {"X", "Y"} :
        /\ BookCost(symbol)
               = ExactSub(Total(symbol, "value"), Total(symbol, "cost_basis"))
        /\ Total(symbol, "gain")
               = ExactAdd(ExactSub(Total(symbol, "proceeds"), Total(symbol, "value")),
                          BookCost(symbol))

(***************************************************************************)
(* What an apply leaves alone                                              *)
(***************************************************************************)
\* C26: an apply of a record of symbol S leaves every other symbol of the
\* ledger with the quantity and book cost it had, adds no entry for another
\* symbol and removes none; an apply that resolves nothing (no signed
\* quantity, no symbol, or a disposal with undetermined proceeds) leaves the
\* whole mapping as it was, with no entry added for S.
C26_OtherSymbolsUntouched ==
    nApplied > 0 =>
        /\ \A symbol \in (DOMAIN ledger \cup DOMAIN ledgerBefore) \ {applied.symbol} :
               /\ symbol \in DOMAIN ledgerBefore
               /\ symbol \in DOMAIN ledger
               /\ ledger[symbol] = ledgerBefore[symbol]
        /\ DOMAIN ledgerBefore \subseteq DOMAIN ledger
        /\ Unresolvable(applied) => /\ ledger = ledgerBefore
                                    /\ DOMAIN ledger = DOMAIN ledgerBefore

\* with X held, a sale of Y has changed the entry of Y and left X as it was
C26_Witness ==
    /\ nApplied > 0
    /\ applied = Trade("Y", "sell", Dec(5), Dec(9))
    /\ ledgerBefore = [s \in {"X", "Y"} |-> PositionCost(Dec(10), Dec(50))]
    /\ ledger["X"] = PositionCost(Dec(10), Dec(50))
    /\ ledger["Y"] = PositionCost(Dec(5), Dec(25))

(***************************************************************************)
(* The average cost across a disposal                                      *)
(***************************************************************************)
\* The last apply was a disposal with determined proceeds
Disposed ==
    /\ LastApplied(-1)
    /\ transaction_value(applied, SignedQuantity) # None

\* C27: a disposal with determined proceeds that finds and leaves a non-zero
\* quantity leaves the average cost as it was (book cost after times quantity
\* before = book cost before times quantity after), and a disposal of exactly
\* the quantity held leaves quantity 0 and book cost 0.
C27_AverageCostKept ==
    /\ (Disposed /\ ~IsZero(OldPosition.quantity) /\ ~IsZero(NewPosition.quantity)) =>
           DecMul(NewPosition.book_cost, OldPosition.quantity)
               = DecMul(OldPosition.book_cost, NewPosition.quantity)
    /\ (Disposed /\ DecNeg(SignedQuantity) = OldPosition.quantity) =>
           /\ IsZero(NewPosition.quantity)
           /\ IsZero(NewPosition.book_cost)

(***************************************************************************)
(* The order of the input                                                  *)
(***************************************************************************)
\* No two records of the input have the same effective date
DistinctDates ==
    \A i, j \in DatedPlaces :
        i # j => _effective_date(replayTransactions[i])
                     # _effective_date(replayTransactions[j])

\* C28: for a history whose records have distinct effective dates, the replay
\* of the records listed in any other order returns the same snapshot for
\* every valuation date.
C28_InputOrderIrrelevant ==
    (replayPc = "done" /\ DistinctDates) =>
        \A transactions \in Reordered(replayTransactions) :
            _book_costs_by_date(transactions, replayDates) = replayResults

\* a sale of day 3 listed first, then a buy of day 1 and a buy settled on day
\* 2, has been replayed for the three days
C28_Witness ==
    /\ replayPc = "done"
    /\ DistinctDates
    /\ replayTransactions = <<Dated("sell", Dec(5), Dec(9), 3, NoDate),
                              Dated("buy", Dec(10), Dec(5), 1, NoDate),
                              Dated("buy", Dec(10), Dec(5), NoDate, 2)>>
    /\ replayDates = {1, 2, 3}
    /\ replayResults[1] = [s \in {"X"} |-> PositionCost(Dec(10), Dec(50))]
    /\ replayResults[2] = [s \in {"X"} |-> PositionCost(Dec(20), Dec(100))]
    /\ replayResults[3] = [s \in {"X"} |-> PositionCost(Dec(15), Dec(75))]

(***************************************************************************)
(* A quantity of zero                                                      *)
(***************************************************************************)
\* C29: the apply of a buy or a sell whose quantity is exactly zero returns
\* none and leaves the mapping as it was, with no entry created for the symbol.
C29_ZeroQuantityNoEffect ==
    (/\ nApplied > 0
     /\ applied.description \in {"buy", "sell"}
     /\ applied.quantity # None
     /\ IsZero(applied.quantity)) =>
        /\ returned = None
        /\ ledger = ledgerBefore
        /\ DOMAIN ledger = DOMAIN ledgerBefore

(***************************************************************************)
(* The records the sells yield                                             *)
(***************************************************************************)
\* The rows of the file with an effective date
DerivePlaces == {i \in 1..Len(deriveTransactions) :
                    effective_date(deriveTransactions[i]) # NoDate}

\* Row i is dated before row j, or on the same day and listed before it
DerivePrecedes(i, j) ==
    \/ effective_date(deriveTransactions[i]) < effective_date(deriveTransactions[j])
    \/ /\ effective_date(deriveTransactions[i]) = effective_date(deriveTransactions[j])
       /\ i < j

\* The row the n-th pass takes: the one with n - 1 dated rows before it
DeriveTaken(n) ==
    CHOOSE j \in DerivePlaces :
        Cardinality({i \in DerivePlaces : DerivePrecedes(i, j)}) = n - 1

\* The position built from the buys and sells among the rows of the first n
\* passes, applied from an empty mapping in that order
RECURSIVE PositionBuilt(_)
PositionBuilt(n) ==
    IF n = 0 THEN EmptyDict
    ELSE The({IF record.description \in {"buy", "sell"}
              THEN apply_transaction_to_position_costs(record, before).positions
              ELSE before :
              record \in {deriveTransactions[DeriveTaken(n)]},
              before \in {PositionBuilt(n - 1)}})

\* What the ledger returns for the row of pass n against the position built
\* from the rows before it
GainOfPass(n) ==
    The({apply_transaction_to_position_costs(deriveTransactions[DeriveTaken(n)], before) :
         before \in {PositionBuilt(n - 1)}})

\* The passes whose row is a sell for which the ledger returns a gain
GainfulSells ==
    {n \in 1..deriveAt :
        /\ deriveTransactions[DeriveTaken(n)].description = "sell"
        /\ GainOfPass(n).raised = ""
        /\ GainOfPass(n).gain # None}

\* C30: a pass over a sell for which the ledger returns a gain g, computed
\* against the position built from the buys and sells dated before it (and
\* those of its own day listed before it), yields exactly one record, a "sell
\* of securities" dated at the sell's effective date, with credit = g and no
\* debit when g >= 0 and debit = -g and no credit when g < 0, so that its
\* amount is g; a pass over a buy, or over a sell whose gain is undetermined,
\* yields nothing, and the generator yields no other "sell of securities".
C30_SellsYieldTheirGain ==
    /\ \A n \in 1..deriveAt :
           LET record == deriveTransactions[DeriveTaken(n)]
               pass   == derivePasses[n]
               g      == GainOfPass(n).gain
           IN  /\ record = deriveSorted[n]
               /\ record.description = "buy" => pass.yielded = <<>>
               /\ (record.description = "sell" /\ n \notin GainfulSells) =>
                      pass.yielded = <<>>
               /\ n \in GainfulSells =>
                      /\ pass.called /\ pass.gain = g
                      /\ Len(pass.yielded) = 1
                      /\ pass.yielded[1].description = "sell of securities"
                      /\ pass.yielded[1].trade_date = effective_date(record)
                      /\ pass.yielded[1].account_name = record.account_name
                      /\ pass.yielded[1].symbol = record.symbol
                      /\ (pass.yielded[1].credit = None) # (pass.yielded[1].debit = None)
                      /\ DecSign(g) >= 0 =>
                             pass.yielded[1].credit = g /\ pass.yielded[1].debit = None
                      /\ DecSign(g) < 0 =>
                             /\ pass.yielded[1].debit = DecNeg(g)
                             /\ pass.yielded[1].credit = None
                      /\ IsZero(DecSub(_amount(pass.yielded[1]), g))
    /\ Len(SelectSeq(deriveYielded, LAMBDA r : r.description = "sell of securities"))
           = Cardinality(GainfulSells)

\* A file listing two sales of day 2 before the buy of day 1 has been run
\* through: the sale of 2 X @ 5 out of 4 bought @ 5 yields a credit of 0, the
\* sale of 2 X @ 3 a debit of 4, and the buy yields nothing
C30_Witness ==
    /\ derivePc = "done"
    /\ deriveTransactions = <<Filed("A", "sell", Dec(2), Dec(5), None, 2),
                              Filed("A", "sell", Dec(2), Dec(3), None, 2),
                              Filed("A", "buy", Dec(4), Dec(5), None, 1)>>
    /\ GainfulSells = {2, 3}
    /\ deriveYielded = <<IncomeRecord("A", 2, "X", "sell of securities", None, Dec(0)),
                         IncomeRecord("A", 2, "X", "sell of securities", Dec(4), None)>>
====
